---- MODULE Spec2Model ----
(***************************************************************************)
(* Verification model of the paradox_token program (Token-2022 Paradox).   *)
(*                                                                         *)
(* Part 1: the LP custody lock (state/lp_lock.rs, instructions/lp_lock.rs):*)
(* progressive timelock, 3 pending-withdrawal slots, 5-snapshot ring.      *)
(*                                                                         *)
(* An instruction that returns Err is rolled back by the runtime: the      *)
(* account keeps its pre-instruction contents.  Each action therefore      *)
(* computes the handler's result record and commits its lock only when     *)
(* err = "Ok"; a failed attempt is a step that changes nothing.            *)
(***************************************************************************)
EXTENDS Integers, FiniteSets, Sequences, TLC

VARIABLES
    lp_lock,        \* the LpLock account
    now,            \* Clock::get().unix_timestamp
    restored_ids,   \* history: snapshot ids whose restore returned Ok
    vault,          \* the DevVestingVault account
    distribution,   \* a call of TokenConfig::calculate_distribution and its result
    treasury,       \* the DaoTreasuryVault account
    outflows,       \* history: the successful treasury executes, oldest first
    token_config,   \* the TokenConfig account
    armageddon_state, \* the ArmageddonState account
    cap_call,       \* a call of DevVestingVault::max_unlockable and its result
    unlock_calls,   \* history: the successful vesting requests and executes, oldest first
    period_reset    \* history: the treasury balance and the number of outflows at the last period reset

vars == <<lp_lock, now, restored_ids, vault, distribution,
          treasury, outflows, token_config, armageddon_state, cap_call,
          unlock_calls, period_reset>>

-----------------------------------------------------------------------------
(* Program constants (state/lp_lock.rs)                                    *)

PHASE1_DURATION_SECONDS == 259200
PHASE1_TIMELOCK_SECONDS == 43200
PHASE2_DURATION_SECONDS == 1296000
PHASE2_TIMELOCK_SECONDS == 1296000
PHASE3_TIMELOCK_SECONDS == 2592000
MAX_PENDING_WITHDRAWALS == 3
MAX_SNAPSHOTS == 5

-----------------------------------------------------------------------------
(* Bounds of the model                                                     *)

MaxAmount == 2
NewSnapshots == 1
GenesisTime == 1000
MaxAllocation == 2000
VestGenesis == 1700000000
MaxFee == 200000

Pubkeys == {"keyA", "keyB"}
DefaultPubkey == "default"
SlotInputs == 0 .. MAX_PENDING_WITHDRAWALS
\* restore is tried with id 0, every id issued so far and one not yet issued
SnapshotIdInputs(lk) == 0 .. (lk.snapshot_counter + 1)

\* Ages (seconds since created_at) at which the clock is observed: the phase
\* boundaries and the execute_after instants of announcements made at them.
ClockAges ==
    { PHASE1_TIMELOCK_SECONDS - 1,
      PHASE1_TIMELOCK_SECONDS,
      PHASE1_DURATION_SECONDS - 1,
      PHASE1_DURATION_SECONDS,
      PHASE2_DURATION_SECONDS - 1,
      PHASE2_DURATION_SECONDS,
      PHASE1_DURATION_SECONDS + PHASE2_TIMELOCK_SECONDS }

CapAges == { PHASE1_DURATION_SECONDS, PHASE2_DURATION_SECONDS }

RingAges == { PHASE1_TIMELOCK_SECONDS }

-----------------------------------------------------------------------------
(* Data structures                                                         *)

SlotIdx == 0 .. (MAX_PENDING_WITHDRAWALS - 1)
RingIdx == 0 .. (MAX_SNAPSHOTS - 1)

LpSnapshotDefault ==
    [ id |-> 0, timestamp |-> 0, reason |-> "", lp_tokens |-> 0,
      sol_reserve |-> 0, token_reserve |-> 0, total_supply |-> 0,
      holder_count |-> 0, is_valid |-> FALSE, was_restored |-> FALSE ]

PendingWithdrawalDefault ==
    [ amount |-> 0, recipient |-> DefaultPubkey, announced_at |-> 0,
      execute_after |-> 0, reason |-> "", snapshot_id |-> 0,
      is_active |-> FALSE ]

saturating_sub(a, b) == IF a >= b THEN a - b ELSE 0

\* u64::saturating_add; the u64 ceiling is out of reach of the bounded amounts
saturating_add(a, b) == a + b

ActiveSlots(lk) == { i \in SlotIdx : lk.pending_withdrawals[i].is_active }

-----------------------------------------------------------------------------
(* impl LpLock (state/lp_lock.rs)                                          *)

get_current_phase_stored(lk, t) == lk.phase

get_current_phase(lk, t) ==
    LET age == t - lk.created_at IN
    IF age < PHASE1_DURATION_SECONDS THEN "Emergency"
    ELSE IF age < PHASE2_DURATION_SECONDS THEN "Stabilization"
    ELSE "Permanent"

get_required_timelock(lk, t) ==
    LET p == get_current_phase(lk, t) IN
    IF p = "Emergency" THEN PHASE1_TIMELOCK_SECONDS
    ELSE IF p = "Stabilization" THEN PHASE2_TIMELOCK_SECONDS
    ELSE PHASE3_TIMELOCK_SECONDS

initialize(admin, lp_amount, t) ==
    [ admin |-> admin,
      governance |-> admin,
      created_at |-> t,
      phase |-> "Emergency",
      status |-> "Active",
      lp_tokens_locked |-> lp_amount,
      total_withdrawn |-> 0,
      initial_lp_tokens |-> lp_amount,
      snapshot_counter |-> 0,
      snapshots |-> [i \in RingIdx |-> LpSnapshotDefault],
      latest_restorable_snapshot |-> 0,
      pending_withdrawals |-> [i \in SlotIdx |-> PendingWithdrawalDefault],
      pending_count |-> 0 ]

snapshot_index_unrotated(snapshot_id) ==
    IF snapshot_id - 1 < MAX_SNAPSHOTS THEN snapshot_id - 1 ELSE MAX_SNAPSHOTS - 1

snapshot_index(snapshot_id) == (snapshot_id - 1) % 5

take_snapshot_no_increment(lk, reason, sol_reserve, token_reserve, total_supply, holder_count, t) ==
    LET snapshot_id == lk.snapshot_counter + 1
        idx == snapshot_index(snapshot_id)
        snap == [ id |-> snapshot_id, timestamp |-> t, reason |-> reason,
                  lp_tokens |-> lk.lp_tokens_locked,
                  sol_reserve |-> sol_reserve, token_reserve |-> token_reserve,
                  total_supply |-> total_supply, holder_count |-> holder_count,
                  is_valid |-> TRUE, was_restored |-> FALSE ]
    IN  << [lk EXCEPT !.snapshots = [@ EXCEPT ![idx] = snap],
                      !.latest_restorable_snapshot = snapshot_id],
           snapshot_id >>

\* returns <<lock, snapshot_id>>
take_snapshot(lk, reason, sol_reserve, token_reserve, total_supply, holder_count, t) ==
    LET snapshot_id == lk.snapshot_counter + 1
        idx == snapshot_index(snapshot_id)
        snap == [ id |-> snapshot_id, timestamp |-> t, reason |-> reason,
                  lp_tokens |-> lk.lp_tokens_locked,
                  sol_reserve |-> sol_reserve, token_reserve |-> token_reserve,
                  total_supply |-> total_supply, holder_count |-> holder_count,
                  is_valid |-> TRUE, was_restored |-> FALSE ]
    IN  << [lk EXCEPT !.snapshot_counter = snapshot_id,
                      !.snapshots = [@ EXCEPT ![idx] = snap],
                      !.latest_restorable_snapshot = snapshot_id],
           snapshot_id >>

\* the ring indices get_snapshot would return for id (None when empty)
snapshot_matches(lk, id) ==
    { i \in RingIdx : lk.snapshots[i].id = id /\ lk.snapshots[i].is_valid }

has_snapshot(lk, id) == snapshot_matches(lk, id) # {}

get_snapshot(lk, id) ==
    lk.snapshots[CHOOSE i \in snapshot_matches(lk, id) :
                    \A j \in snapshot_matches(lk, id) : i <= j]

mark_snapshot_restored_noop(lk, id) == lk

mark_snapshot_restored(lk, id) ==
    [lk EXCEPT !.snapshots =
        [i \in RingIdx |->
            IF lk.snapshots[i].id = id
            THEN [lk.snapshots[i] EXCEPT !.was_restored = TRUE]
            ELSE lk.snapshots[i]]]

free_slots(lk) == SlotIdx \ ActiveSlots(lk)

find_empty_slot_overwrite(lk) ==
    IF free_slots(lk) = {} THEN 0
    ELSE CHOOSE i \in free_slots(lk) : \A j \in free_slots(lk) : i <= j

\* position(|pw| !pw.is_active): the lowest inactive slot, -1 for None
find_empty_slot(lk) ==
    IF free_slots(lk) = {} THEN -1
    ELSE CHOOSE i \in free_slots(lk) : \A j \in free_slots(lk) : i <= j

announce_withdrawal(lk, amount, recipient, reason, snapshot_id, t) ==
    LET slot == find_empty_slot(lk) IN
    IF slot = -1
    THEN [err |-> "TooManyPendingWithdrawals", lock |-> lk, slot |-> -1]
    ELSE LET timelock == get_required_timelock(lk, t)
             pw == [ amount |-> amount, recipient |-> recipient,
                     announced_at |-> t, execute_after |-> t + timelock,
                     reason |-> reason, snapshot_id |-> snapshot_id,
                     is_active |-> TRUE ]
         IN [err |-> "Ok",
             lock |-> [lk EXCEPT !.pending_withdrawals = [@ EXCEPT ![slot] = pw],
                                 !.pending_count = @ + 1,
                                 !.status = "WithdrawalPending"],
             slot |-> slot]

can_execute_withdrawal_no_timelock(lk, slot, t) ==
    IF slot >= MAX_PENDING_WITHDRAWALS THEN FALSE
    ELSE lk.pending_withdrawals[slot].is_active

can_execute_withdrawal(lk, slot, t) ==
    IF slot >= MAX_PENDING_WITHDRAWALS THEN FALSE
    ELSE IF ~lk.pending_withdrawals[slot].is_active THEN FALSE
    ELSE t >= lk.pending_withdrawals[slot].execute_after

\* the executed slot left active
execute_withdrawal_keep_slot(lk, slot, t) ==
    IF ~(slot < MAX_PENDING_WITHDRAWALS)
    THEN [err |-> "InvalidWithdrawalSlot", lock |-> lk, amount |-> 0, recipient |-> DefaultPubkey]
    ELSE IF ~lk.pending_withdrawals[slot].is_active
    THEN [err |-> "NoActiveWithdrawal", lock |-> lk, amount |-> 0, recipient |-> DefaultPubkey]
    ELSE IF ~can_execute_withdrawal(lk, slot, t)
    THEN [err |-> "TimelockNotExpired", lock |-> lk, amount |-> 0, recipient |-> DefaultPubkey]
    ELSE
      LET pw == lk.pending_withdrawals[slot]
          locked == saturating_sub(lk.lp_tokens_locked, pw.amount)
          count == saturating_sub(lk.pending_count, 1)
      IN [err |-> "Ok",
          lock |-> [lk EXCEPT
                      !.lp_tokens_locked = locked,
                      !.total_withdrawn = saturating_add(@, pw.amount),
                      !.pending_count = count,
                      !.status = IF count = 0
                                 THEN (IF locked = 0 THEN "Withdrawn" ELSE "Active")
                                 ELSE @],
          amount |-> pw.amount,
          recipient |-> pw.recipient]

execute_withdrawal(lk, slot, t) ==
    IF ~(slot < MAX_PENDING_WITHDRAWALS)
    THEN [err |-> "InvalidWithdrawalSlot", lock |-> lk, amount |-> 0, recipient |-> DefaultPubkey]
    ELSE IF ~lk.pending_withdrawals[slot].is_active
    THEN [err |-> "NoActiveWithdrawal", lock |-> lk, amount |-> 0, recipient |-> DefaultPubkey]
    ELSE IF ~can_execute_withdrawal(lk, slot, t)
    THEN [err |-> "TimelockNotExpired", lock |-> lk, amount |-> 0, recipient |-> DefaultPubkey]
    ELSE
      LET pw == lk.pending_withdrawals[slot]
          locked == saturating_sub(lk.lp_tokens_locked, pw.amount)
          count == saturating_sub(lk.pending_count, 1)
      IN [err |-> "Ok",
          lock |-> [lk EXCEPT
                      !.lp_tokens_locked = locked,
                      !.total_withdrawn = saturating_add(@, pw.amount),
                      !.pending_withdrawals = [@ EXCEPT ![slot] = PendingWithdrawalDefault],
                      !.pending_count = count,
                      !.status = IF count = 0
                                 THEN (IF locked = 0 THEN "Withdrawn" ELSE "Active")
                                 ELSE @],
          amount |-> pw.amount,
          recipient |-> pw.recipient]

cancel_withdrawal_clear_all(lk, slot) ==
    IF ~(slot < MAX_PENDING_WITHDRAWALS)
    THEN [err |-> "InvalidWithdrawalSlot", lock |-> lk]
    ELSE IF ~lk.pending_withdrawals[slot].is_active
    THEN [err |-> "NoActiveWithdrawal", lock |-> lk]
    ELSE
      [err |-> "Ok",
       lock |-> [lk EXCEPT
                   !.pending_withdrawals = [i \in SlotIdx |-> PendingWithdrawalDefault],
                   !.pending_count = 0,
                   !.status = "Active"]]

\* the count taken down, the slot left as it was
cancel_withdrawal_keep_active(lk, slot) ==
    IF ~(slot < MAX_PENDING_WITHDRAWALS)
    THEN [err |-> "InvalidWithdrawalSlot", lock |-> lk]
    ELSE IF ~lk.pending_withdrawals[slot].is_active
    THEN [err |-> "NoActiveWithdrawal", lock |-> lk]
    ELSE
      LET count == saturating_sub(lk.pending_count, 1) IN
      [err |-> "Ok",
       lock |-> [lk EXCEPT
                   !.pending_count = count,
                   !.status = IF count = 0 THEN "Active" ELSE @]]

cancel_withdrawal(lk, slot) ==
    IF ~(slot < MAX_PENDING_WITHDRAWALS)
    THEN [err |-> "InvalidWithdrawalSlot", lock |-> lk]
    ELSE IF ~lk.pending_withdrawals[slot].is_active
    THEN [err |-> "NoActiveWithdrawal", lock |-> lk]
    ELSE
      LET count == saturating_sub(lk.pending_count, 1) IN
      [err |-> "Ok",
       lock |-> [lk EXCEPT
                   !.pending_withdrawals = [@ EXCEPT ![slot] = PendingWithdrawalDefault],
                   !.pending_count = count,
                   !.status = IF count = 0 THEN "Active" ELSE @]]

restore_from_snapshot_retime(lk, lp_amount, t) ==
    [lk EXCEPT !.lp_tokens_locked = lp_amount,
               !.status = "Restored",
               !.phase = get_current_phase(lk, t),
               !.pending_withdrawals =
                   [i \in SlotIdx |->
                       IF lk.pending_withdrawals[i].is_active
                       THEN [lk.pending_withdrawals[i] EXCEPT !.execute_after =
                                lk.pending_withdrawals[i].announced_at
                                   + get_required_timelock(lk, t)]
                       ELSE lk.pending_withdrawals[i]]]

restore_from_snapshot(lk, lp_amount, t) ==
    [lk EXCEPT !.lp_tokens_locked = lp_amount,
               !.status = "Restored",
               !.phase = get_current_phase(lk, t)]

-----------------------------------------------------------------------------
(* Instruction handlers (instructions/lp_lock.rs).  Each returns a record   *)
(* whose err is "Ok" or the error the instruction fails with, and whose     *)
(* lock is the account as the handler leaves it.                            *)

create_pool_and_lock_handler(creator, t) ==
    LET lp_tokens_received == 0 IN
    initialize(creator, lp_tokens_received, t)

take_snapshot_handler(lk, signer, reason, sol_reserve, token_reserve, total_supply, holder_count, t) ==
    IF signer # lk.admin
    THEN [err |-> "Unauthorized", lock |-> lk, id |-> -1]
    ELSE LET r == take_snapshot(lk, reason, sol_reserve, token_reserve,
                                total_supply, holder_count, t)
         IN [err |-> "Ok", lock |-> r[1], id |-> r[2]]

announce_withdrawal_handler_no_snapshot(lk, signer, amount, recipient, reason, t) ==
    IF signer # lk.admin
    THEN [err |-> "Unauthorized", lock |-> lk, slot |-> -1, id |-> -1]
    ELSE IF ~(amount <= lk.lp_tokens_locked)
    THEN [err |-> "InsufficientLpTokens", lock |-> lk, slot |-> -1, id |-> -1]
    ELSE LET a == announce_withdrawal(lk, amount, recipient, reason,
                                      lk.latest_restorable_snapshot, t)
         IN [err |-> a.err, lock |-> a.lock, slot |-> a.slot,
             id |-> lk.latest_restorable_snapshot]

announce_withdrawal_handler(lk, signer, amount, recipient, reason, t) ==
    IF signer # lk.admin
    THEN [err |-> "Unauthorized", lock |-> lk, slot |-> -1, id |-> -1]
    ELSE IF ~(amount <= lk.lp_tokens_locked)
    THEN [err |-> "InsufficientLpTokens", lock |-> lk, slot |-> -1, id |-> -1]
    ELSE LET s == take_snapshot(lk, "PRE_WITHDRAWAL__", 0, 0, 0, 0, t)
             a == announce_withdrawal(s[1], amount, recipient, reason, s[2], t)
         IN [err |-> a.err, lock |-> a.lock, slot |-> a.slot, id |-> s[2]]

\* recipient_lp_account is the account the caller passes as destination,
\* named here by its owner; transfer_ok is the outcome of the token CPI.
execute_withdrawal_handler(lk, slot, recipient_lp_account, transfer_ok, t) ==
    IF ~can_execute_withdrawal(lk, slot, t)
    THEN [err |-> "TimelockNotExpired", lock |-> lk, amount |-> -1,
          recipient |-> DefaultPubkey, to |-> DefaultPubkey]
    ELSE LET e == execute_withdrawal(lk, slot, t) IN
         IF e.err # "Ok"
         THEN [err |-> e.err, lock |-> e.lock, amount |-> -1,
               recipient |-> DefaultPubkey, to |-> DefaultPubkey]
         ELSE IF ~transfer_ok
         THEN [err |-> "TransferFailed", lock |-> e.lock, amount |-> -1,
               recipient |-> DefaultPubkey, to |-> DefaultPubkey]
         ELSE [err |-> "Ok", lock |-> e.lock, amount |-> e.amount,
               recipient |-> e.recipient, to |-> recipient_lp_account]

cancel_withdrawal_handler(lk, signer, slot) ==
    IF signer # lk.admin
    THEN [err |-> "Unauthorized", lock |-> lk]
    ELSE IF slot >= MAX_PENDING_WITHDRAWALS
    THEN [err |-> "IndexOutOfBounds", lock |-> lk]
    ELSE cancel_withdrawal(lk, slot)

restore_from_snapshot_handler(lk, signer, snapshot_id, lp_amount, transfer_ok, t) ==
    IF signer # lk.admin
    THEN [err |-> "Unauthorized", lock |-> lk]
    ELSE IF ~has_snapshot(lk, snapshot_id)
    THEN [err |-> "InvalidWithdrawalSlot", lock |-> lk]
    ELSE IF get_snapshot(lk, snapshot_id).was_restored
    THEN [err |-> "AlreadyFinalized", lock |-> lk]
    ELSE IF ~transfer_ok
    THEN [err |-> "TransferFailed", lock |-> lk]
    ELSE [err |-> "Ok",
          lock |-> mark_snapshot_restored(
                      restore_from_snapshot(lk, lp_amount, t), snapshot_id)]

\* the role handed over at anyone's request
transfer_admin_handler_unchecked(lk, signer, new_admin) ==
    [err |-> "Ok", lock |-> [lk EXCEPT !.admin = new_admin]]

transfer_admin_handler(lk, signer, new_admin) ==
    IF signer # lk.admin
    THEN [err |-> "Unauthorized", lock |-> lk]
    ELSE [err |-> "Ok", lock |-> [lk EXCEPT !.admin = new_admin]]

\* the account written back as the failed handler left it
Commit_partial(r) == r.lock

\* the runtime keeps the account of a failed instruction as it was
Commit(r) == IF r.err = "Ok" THEN r.lock ELSE lp_lock

-----------------------------------------------------------------------------
(* Dev vesting vault (state/vesting.rs, instructions/vesting.rs)            *)

MIN_TRANSFER_AMOUNT == 34
DEFAULT_CLIFF_SECONDS == 15552000
DEFAULT_VESTING_SECONDS == 93312000
DEFAULT_COOLDOWN_SECONDS == 2592000
DEFAULT_TIMELOCK_SECONDS == 2592000
YEAR1_UNLOCK_RATE_BPS == 500

\* the account before init_dev_vesting has created it
DevVestingVaultDefault ==
    [ dev |-> DefaultPubkey, total_allocation |-> 0, liquid_at_tge |-> 0,
      total_locked |-> 0, locked_amount |-> 0, pending_amount |-> 0,
      initialized_at |-> 0, cliff_seconds |-> 0, vesting_seconds |-> 0,
      last_request_time |-> 0, unlock_time |-> 0, cooldown_seconds |-> 0,
      timelock_seconds |-> 0, unlock_rate_bps |-> 0, total_unlocked |-> 0 ]

cliff_passed_always(v, current_time) == TRUE

cliff_passed(v, current_time) ==
    LET cliff_end == v.initialized_at + v.cliff_seconds IN
    current_time >= cliff_end

cooldown_passed_always(v, current_time) == TRUE

cooldown_passed(v, current_time) ==
    LET cooldown_end == v.last_request_time + v.cooldown_seconds IN
    current_time >= cooldown_end

timelock_expired(v, current_time) == current_time >= v.unlock_time

\* 64-bit unsigned values are held as six limbs in base 10000, lowest first
\* (the sixth limb is 0 for a u64; it takes the carry of a product by a u16).
U64_MAX == <<1615, 955, 737, 6744, 1844, 0>>

\* a value below 10^12 as limbs, and back
to_limbs(n) ==
    <<n % 10000, (n \div 10000) % 10000, (n \div 100000000) % 10000, 0, 0, 0>>

from_limbs(x) == x[1] + 10000 * x[2] + 100000000 * x[3]

RECURSIVE limbs_greater(_, _, _)
\* x > y, comparing from limb i downwards
limbs_greater(x, y, i) ==
    IF i = 0 THEN FALSE
    ELSE IF x[i] # y[i] THEN x[i] > y[i]
    ELSE limbs_greater(x, y, i - 1)

RECURSIVE limbs_mul(_, _, _, _)
\* the exact product of x (limbs i..6) by k, carry added
limbs_mul(x, k, i, carry) ==
    IF i > 6 THEN <<>>
    ELSE LET p == x[i] * k + carry IN
         <<p % 10000>> \o limbs_mul(x, k, i + 1, p \div 10000)

\* u64::saturating_mul: the product, or u64::MAX when it does not fit
saturating_mul(x, k) ==
    LET p == limbs_mul(x, k, 1, 0) IN
    IF limbs_greater(p, U64_MAX, 6) THEN U64_MAX ELSE p

\* x / 10_000: the lowest limb dropped
div_10000(x) == Tail(x) \o <<0>>

\* DevVestingVault::max_unlockable on a 64-bit locked_amount
max_unlockable_u64(locked_amount, unlock_rate_bps) ==
    div_10000(saturating_mul(locked_amount, unlock_rate_bps))

\* no rate applied: the whole locked balance
max_unlockable_whole(v) == v.locked_amount

max_unlockable(v) ==
    from_limbs(max_unlockable_u64(to_limbs(v.locked_amount), v.unlock_rate_bps))

\* no call of max_unlockable is being followed
NoCapCall ==
    [ locked_amount |-> to_limbs(0), unlock_rate_bps |-> 0, called |-> FALSE,
      cap |-> to_limbs(0) ]

update_unlock_rate_keep(v, current_time) == v

update_unlock_rate(v, current_time) ==
    LET months_since_tge == (current_time - v.initialized_at) \div (30 * 24 * 60 * 60) IN
    IF months_since_tge >= 18
    THEN [v EXCEPT !.unlock_rate_bps = 1000]
    ELSE [v EXCEPT !.unlock_rate_bps = 500]

\* total_locked taken from the whole allocation
init_dev_handler_total_allocation(dev, total_allocation, liquid_at_tge, cliff_seconds, vesting_seconds, t) ==
    IF total_allocation < liquid_at_tge
    THEN [err |-> "MathOverflow", vault |-> DevVestingVaultDefault]
    ELSE LET locked_amount == total_allocation - liquid_at_tge IN
         [err |-> "Ok",
          vault |-> [ dev |-> dev,
                      total_allocation |-> total_allocation,
                      liquid_at_tge |-> liquid_at_tge,
                      total_locked |-> total_allocation,
                      locked_amount |-> locked_amount,
                      pending_amount |-> 0,
                      initialized_at |-> t,
                      cliff_seconds |-> cliff_seconds,
                      vesting_seconds |-> vesting_seconds,
                      last_request_time |-> 0,
                      unlock_time |-> 0,
                      cooldown_seconds |-> DEFAULT_COOLDOWN_SECONDS,
                      timelock_seconds |-> DEFAULT_TIMELOCK_SECONDS,
                      unlock_rate_bps |-> YEAR1_UNLOCK_RATE_BPS,
                      total_unlocked |-> 0 ]]

init_dev_handler(dev, total_allocation, liquid_at_tge, cliff_seconds, vesting_seconds, t) ==
    IF total_allocation < liquid_at_tge
    THEN [err |-> "MathOverflow", vault |-> DevVestingVaultDefault]
    ELSE LET locked_amount == total_allocation - liquid_at_tge IN
         [err |-> "Ok",
          vault |-> [ dev |-> dev,
                      total_allocation |-> total_allocation,
                      liquid_at_tge |-> liquid_at_tge,
                      total_locked |-> locked_amount,
                      locked_amount |-> locked_amount,
                      pending_amount |-> 0,
                      initialized_at |-> t,
                      cliff_seconds |-> cliff_seconds,
                      vesting_seconds |-> vesting_seconds,
                      last_request_time |-> 0,
                      unlock_time |-> 0,
                      cooldown_seconds |-> DEFAULT_COOLDOWN_SECONDS,
                      timelock_seconds |-> DEFAULT_TIMELOCK_SECONDS,
                      unlock_rate_bps |-> YEAR1_UNLOCK_RATE_BPS,
                      total_unlocked |-> 0 ]]

request_unlock_handler(v, signer, amount, t) ==
    IF signer # v.dev
    THEN [err |-> "Unauthorized", vault |-> v]
    ELSE IF ~(amount >= MIN_TRANSFER_AMOUNT)
    THEN [err |-> "AmountBelowMinimum", vault |-> v]
    ELSE IF ~cliff_passed(v, t)
    THEN [err |-> "CliffNotPassed", vault |-> v]
    ELSE IF ~cooldown_passed(v, t)
    THEN [err |-> "CooldownNotPassed", vault |-> v]
    ELSE LET rated == update_unlock_rate(v, t) IN
         IF ~(amount <= max_unlockable(rated))
         THEN [err |-> "UnlockRateExceeded", vault |-> rated]
         ELSE [err |-> "Ok",
               vault |-> [rated EXCEPT !.pending_amount = amount,
                                       !.last_request_time = t,
                                       !.unlock_time = t + rated.timelock_seconds]]

\* transfer_ok is the outcome of the token CPI; paid is the amount it moved
execute_unlock_handler_keep_pending(v, signer, transfer_ok, t) ==
    IF signer # v.dev
    THEN [err |-> "Unauthorized", vault |-> v, paid |-> 0]
    ELSE IF ~timelock_expired(v, t)
    THEN [err |-> "TimelockNotExpired", vault |-> v, paid |-> 0]
    ELSE IF ~(v.pending_amount > 0)
    THEN [err |-> "InsufficientFees", vault |-> v, paid |-> 0]
    ELSE IF ~transfer_ok
    THEN [err |-> "TransferFailed", vault |-> v, paid |-> 0]
    ELSE IF v.locked_amount < v.pending_amount
    THEN [err |-> "MathOverflow", vault |-> v, paid |-> 0]
    ELSE [err |-> "Ok",
          vault |-> [v EXCEPT !.locked_amount = @ - v.pending_amount,
                              !.total_unlocked = @ + v.pending_amount],
          paid |-> v.pending_amount]

execute_unlock_handler(v, signer, transfer_ok, t) ==
    IF signer # v.dev
    THEN [err |-> "Unauthorized", vault |-> v, paid |-> 0]
    ELSE IF ~timelock_expired(v, t)
    THEN [err |-> "TimelockNotExpired", vault |-> v, paid |-> 0]
    ELSE IF ~(v.pending_amount > 0)
    THEN [err |-> "InsufficientFees", vault |-> v, paid |-> 0]
    ELSE IF ~transfer_ok
    THEN [err |-> "TransferFailed", vault |-> v, paid |-> 0]
    ELSE IF v.locked_amount < v.pending_amount
    THEN [err |-> "MathOverflow", vault |-> v, paid |-> 0]
    ELSE [err |-> "Ok",
          vault |-> [v EXCEPT !.locked_amount = @ - v.pending_amount,
                              !.pending_amount = 0,
                              !.total_unlocked = @ + v.pending_amount],
          paid |-> v.pending_amount]

\* the runtime keeps the account of a failed instruction as it was
CommitVault(r) == IF r.err = "Ok" THEN r.vault ELSE vault

-----------------------------------------------------------------------------
(* Fee distribution (state/token_config.rs)                                 *)

\* no call of calculate_distribution is being followed
NoDistribution ==
    [ fee_amount |-> 0, lp_share_bps |-> 0, burn_share_bps |-> 0,
      treasury_share_bps |-> 0, called |-> FALSE,
      err |-> "", to_lp |-> 0, to_burn |-> 0, to_treasury |-> 0 ]

validate_shares(cfg) ==
    LET total == cfg.lp_share_bps + cfg.burn_share_bps + cfg.treasury_share_bps IN
    total = 10000

\* the treasury share computed like the other two, not as the remainder
calculate_distribution_by_share(cfg, fee_amount) ==
    [ err |-> "Ok",
      to_lp |-> (fee_amount * cfg.lp_share_bps) \div 10000,
      to_burn |-> (fee_amount * cfg.burn_share_bps) \div 10000,
      to_treasury |-> (fee_amount * cfg.treasury_share_bps) \div 10000 ]

\* The products are taken in u128, which a u64 times a u16 cannot overflow, and
\* the divisor is the literal 10000: neither checked_mul nor checked_div fails.
calculate_distribution(cfg, fee_amount) ==
    LET to_lp == (fee_amount * cfg.lp_share_bps) \div 10000
        to_burn == (fee_amount * cfg.burn_share_bps) \div 10000
    IN  IF fee_amount < to_lp \/ fee_amount - to_lp < to_burn
        THEN [err |-> "MathOverflow", to_lp |-> 0, to_burn |-> 0, to_treasury |-> 0]
        ELSE [err |-> "Ok", to_lp |-> to_lp, to_burn |-> to_burn,
              to_treasury |-> fee_amount - to_lp - to_burn]

-----------------------------------------------------------------------------
(* DAO treasury (state/treasury.rs, instructions/treasury.rs)               *)

\* the account before init_dao_treasury has created it
DaoTreasuryVaultDefault ==
    [ governance |-> DefaultPubkey,
      token_account |-> DefaultPubkey,
      balance |-> 0,
      max_spend_bps_per_period |-> 0,
      period_seconds |-> 0,
      period_start |-> 0,
      spent_this_period |-> 0,
      pending_amount |-> 0,
      pending_recipient |-> DefaultPubkey,
      pending_reason |-> [i \in 1..128 |-> 0],
      pending_execute_after |-> 0,
      timelock_seconds |-> 0,
      total_withdrawn |-> 0 ]

\* the cap taken on the balance alone, the amount already spent forgotten
max_spendable_ignore_spent(tr) ==
    (tr.balance * tr.max_spend_bps_per_period) \div 10000

\* no period has been started
NoPeriodReset == [balance |-> 0, outflows |-> 0]

\* no cap applied: the whole balance
max_spendable_of_balance(tr) == tr.balance

\* The product is taken in u128 and the divisor is the literal 10000; the cast
\* back to u64 is exact for the bounded balances.
max_spendable(tr) ==
    LET max_spend == (tr.balance * tr.max_spend_bps_per_period) \div 10000 IN
    saturating_sub(max_spend, tr.spent_this_period)

should_reset_period(tr, current_time) ==
    current_time >= tr.period_start + tr.period_seconds

reset_period(tr, current_time) ==
    [tr EXCEPT !.period_start = current_time, !.spent_this_period = 0]

\* a withdrawal counted executable as soon as the timelock is over, pending or not
treasury_can_execute_withdrawal_any(tr, current_time) ==
    current_time >= tr.pending_execute_after

\* DaoTreasuryVault::can_execute_withdrawal
treasury_can_execute_withdrawal(tr, current_time) ==
    tr.pending_amount > 0 /\ current_time >= tr.pending_execute_after

init_handler(token_account, governance, max_spend_bps_per_period, period_seconds, t) ==
    [ err |-> "Ok",
      treasury |->
        [ governance |-> governance,
          token_account |-> token_account,
          balance |-> 0,
          max_spend_bps_per_period |-> max_spend_bps_per_period,
          period_seconds |-> period_seconds,
          period_start |-> t,
          spent_this_period |-> 0,
          pending_amount |-> 0,
          pending_recipient |-> DefaultPubkey,
          pending_reason |-> [i \in 1..128 |-> 0],
          pending_execute_after |-> 0,
          timelock_seconds |-> 48 * 60 * 60,
          total_withdrawn |-> 0 ] ]

\* No instruction of the program writes a non-zero balance: init sets 0,
\* execute subtracts, and distribute_fees leaves its transfer to the treasury
\* unwritten.  The credit of the treasury's share is modelled from the
\* specification's treasury state.
credit_treasury(tr, amount) ==
    [tr EXCEPT !.balance = saturating_add(@, amount)]

\* reason is the sequence of bytes of the reason string
copy_reason(buf, reason) ==
    LET copy_len == IF Len(reason) < 128 THEN Len(reason) ELSE 128 IN
    [i \in 1..128 |-> IF i <= copy_len THEN reason[i] ELSE buf[i]]

\* a proposal made while one is pending keeps the pending one's execute_after
propose_handler_keep_timelock(tr, signer, amount, recipient, reason, t) ==
    LET fail(e) == [err |-> e, treasury |-> tr]
        t1 == IF should_reset_period(tr, t) THEN reset_period(tr, t) ELSE tr
    IN  IF signer # tr.governance THEN fail("Unauthorized")
        ELSE IF amount < MIN_TRANSFER_AMOUNT THEN fail("AmountBelowMinimum")
        ELSE IF amount > max_spendable(t1) THEN fail("DaoSpendingLimitExceeded")
        ELSE [ err |-> "Ok",
               treasury |->
                 [t1 EXCEPT !.pending_amount = amount,
                            !.pending_recipient = recipient,
                            !.pending_reason = copy_reason(@, reason),
                            !.pending_execute_after =
                                IF tr.pending_amount > 0 THEN @
                                ELSE t + t1.timelock_seconds] ]

\* signer is the governance account of the instruction.  The timestamps are
\* far from the i64 ceiling: checked_add does not fail.
propose_handler(tr, signer, amount, recipient, reason, t) ==
    LET fail(e) == [err |-> e, treasury |-> tr]
        t1 == IF should_reset_period(tr, t) THEN reset_period(tr, t) ELSE tr
    IN  IF signer # tr.governance THEN fail("Unauthorized")
        ELSE IF amount < MIN_TRANSFER_AMOUNT THEN fail("AmountBelowMinimum")
        ELSE IF amount > max_spendable(t1) THEN fail("DaoSpendingLimitExceeded")
        ELSE [ err |-> "Ok",
               treasury |->
                 [t1 EXCEPT !.pending_amount = amount,
                            !.pending_recipient = recipient,
                            !.pending_reason = copy_reason(@, reason),
                            !.pending_execute_after = t + t1.timelock_seconds] ]

\* treasury_token_account is the key of the source account passed,
\* recipient_owner the owner of the destination account passed, transfer_ok
\* the outcome of the token CPI; paid is the amount it moved and paid_to the
\* owner it moved it to.  The sums are far from the u64 ceiling.
execute_handler(tr, treasury_token_account, recipient_owner, transfer_ok, t) ==
    LET fail(e) == [err |-> e, treasury |-> tr, paid |-> 0, paid_to |-> DefaultPubkey]
        amount == tr.pending_amount
    IN  IF treasury_token_account # tr.token_account THEN fail("InvalidVault")
        ELSE IF recipient_owner # tr.pending_recipient THEN fail("Unauthorized")
        ELSE IF ~treasury_can_execute_withdrawal(tr, t) THEN fail("TimelockNotExpired")
        ELSE IF ~transfer_ok THEN fail("TransferFailed")
        ELSE [ err |-> "Ok",
               paid |-> amount,
               paid_to |-> recipient_owner,
               treasury |->
                 [tr EXCEPT !.spent_this_period = @ + amount,
                            !.total_withdrawn = @ + amount,
                            !.balance = saturating_sub(@, amount),
                            !.pending_amount = 0,
                            !.pending_recipient = DefaultPubkey,
                            !.pending_reason = [i \in 1..128 |-> 0],
                            !.pending_execute_after = 0] ]

-----------------------------------------------------------------------------
(* Token config and fee-change timelock (instructions/init_token_config.rs, *)
(* instructions/update_token_config.rs), Armageddon mode                    *)
(* (state/armageddon.rs, instructions/armageddon.rs) and distribute_fees    *)
(* (instructions/fees.rs)                                                   *)

MIN_TRANSFER_FEE_BPS == 100
MAX_TRANSFER_FEE_BPS == 300
FEE_CHANGE_TIMELOCK_SECONDS == 24 * 60 * 60

\* the account before init_token_config has created it (zeroed by init)
TokenConfigDefault ==
    [ admin |-> DefaultPubkey,
      governance |-> DefaultPubkey,
      transfer_fee_bps |-> 0,
      lp_share_bps |-> 0,
      burn_share_bps |-> 0,
      treasury_share_bps |-> 0,
      total_fees_collected |-> 0,
      total_fees_distributed |-> 0,
      is_paused |-> FALSE,
      armageddon_level |-> 0,
      last_fee_update |-> 0,
      pending_fee_bps |-> 0,
      pending_fee_activate_time |-> 0,
      pending_fee_cancel_time |-> 0 ]

\* the account before init_armageddon has created it
ArmageddonStateDefault ==
    [ level |-> 0,
      triggered_at |-> 0,
      lp_value_at_trigger |-> 0,
      baseline_lp_value |-> 0,
      trigger_authority |-> DefaultPubkey,
      recovery_authority |-> DefaultPubkey,
      recovery_threshold_bps |-> 0,
      emergency_fee_bps |-> 0,
      emergency_lp_share_bps |-> 0,
      trading_paused |-> FALSE,
      max_pause_duration |-> 0 ]

\* init_token_config::handler; the shares are summed in u32
init_token_config_handler(admin, transfer_fee_bps, lp_share_bps, burn_share_bps, treasury_share_bps, t) ==
    LET fail(e) == [err |-> e, config |-> TokenConfigDefault]
        total_shares == lp_share_bps + burn_share_bps + treasury_share_bps
    IN  IF ~(transfer_fee_bps >= MIN_TRANSFER_FEE_BPS
             /\ transfer_fee_bps <= MAX_TRANSFER_FEE_BPS)
        THEN fail("InvalidTransferFee")
        ELSE IF total_shares # 10000 THEN fail("InvalidFeeShares")
        ELSE [ err |-> "Ok",
               config |->
                 [TokenConfigDefault EXCEPT
                    !.admin = admin,
                    !.governance = admin,
                    !.transfer_fee_bps = transfer_fee_bps,
                    !.lp_share_bps = lp_share_bps,
                    !.burn_share_bps = burn_share_bps,
                    !.treasury_share_bps = treasury_share_bps,
                    !.total_fees_collected = 0,
                    !.total_fees_distributed = 0,
                    !.is_paused = FALSE,
                    !.armageddon_level = 0,
                    !.last_fee_update = t] ]

\* the new rate accepted whatever its value
announce_fee_change_handler_unvalidated(cfg, signer, new_fee_bps, t) ==
    LET fail(e) == [err |-> e, config |-> cfg] IN
    IF signer # cfg.admin THEN fail("Unauthorized")
    ELSE IF ~(cfg.pending_fee_activate_time = 0 \/ t >= cfg.pending_fee_cancel_time)
    THEN fail("FeeChangeTimelockNotExpired")
    ELSE [ err |-> "Ok",
           config |->
             [cfg EXCEPT !.pending_fee_bps = new_fee_bps,
                         !.pending_fee_activate_time = t + FEE_CHANGE_TIMELOCK_SECONDS,
                         !.pending_fee_cancel_time =
                             t + FEE_CHANGE_TIMELOCK_SECONDS
                               + FEE_CHANGE_TIMELOCK_SECONDS] ]

\* signer is the admin account of the instruction (has_one = admin).  The
\* timestamps are far from the i64 ceiling: checked_add does not fail.
announce_fee_change_handler(cfg, signer, new_fee_bps, t) ==
    LET fail(e) == [err |-> e, config |-> cfg] IN
    IF signer # cfg.admin THEN fail("Unauthorized")
    ELSE IF ~(new_fee_bps >= MIN_TRANSFER_FEE_BPS /\ new_fee_bps <= MAX_TRANSFER_FEE_BPS)
    THEN fail("InvalidTransferFee")
    ELSE IF ~(cfg.pending_fee_activate_time = 0 \/ t >= cfg.pending_fee_cancel_time)
    THEN fail("FeeChangeTimelockNotExpired")
    ELSE [ err |-> "Ok",
           config |->
             [cfg EXCEPT !.pending_fee_bps = new_fee_bps,
                         !.pending_fee_activate_time = t + FEE_CHANGE_TIMELOCK_SECONDS,
                         !.pending_fee_cancel_time =
                             t + FEE_CHANGE_TIMELOCK_SECONDS
                               + FEE_CHANGE_TIMELOCK_SECONDS] ]

\* the end of the execution window not checked
execute_fee_change_handler_no_deadline(cfg, signer, t) ==
    LET fail(e) == [err |-> e, config |-> cfg] IN
    IF signer # cfg.admin THEN fail("Unauthorized")
    ELSE IF ~(cfg.pending_fee_bps > 0) THEN fail("NoPendingFeeChange")
    ELSE IF ~(t >= cfg.pending_fee_activate_time)
    THEN fail("FeeChangeTimelockNotExpired")
    ELSE [ err |-> "Ok",
           config |->
             [cfg EXCEPT !.transfer_fee_bps = cfg.pending_fee_bps,
                         !.last_fee_update = t,
                         !.pending_fee_bps = 0,
                         !.pending_fee_activate_time = 0,
                         !.pending_fee_cancel_time = 0] ]

execute_fee_change_handler(cfg, signer, t) ==
    LET fail(e) == [err |-> e, config |-> cfg] IN
    IF signer # cfg.admin THEN fail("Unauthorized")
    ELSE IF ~(cfg.pending_fee_bps > 0) THEN fail("NoPendingFeeChange")
    ELSE IF ~(t >= cfg.pending_fee_activate_time)
    THEN fail("FeeChangeTimelockNotExpired")
    ELSE IF ~(t < cfg.pending_fee_cancel_time)
    THEN fail("FeeChangeTimelockNotExpired")
    ELSE [ err |-> "Ok",
           config |->
             [cfg EXCEPT !.transfer_fee_bps = cfg.pending_fee_bps,
                         !.last_fee_update = t,
                         !.pending_fee_bps = 0,
                         !.pending_fee_activate_time = 0,
                         !.pending_fee_cancel_time = 0] ]

cancel_fee_change_handler(cfg, signer, t) ==
    LET fail(e) == [err |-> e, config |-> cfg] IN
    IF signer # cfg.admin THEN fail("Unauthorized")
    ELSE IF ~(cfg.pending_fee_bps > 0) THEN fail("NoPendingFeeChange")
    ELSE IF ~(t < cfg.pending_fee_activate_time \/ t >= cfg.pending_fee_cancel_time)
    THEN fail("FeeChangeTimelockNotExpired")
    ELSE [ err |-> "Ok",
           config |->
             [cfg EXCEPT !.pending_fee_bps = 0,
                         !.pending_fee_activate_time = 0,
                         !.pending_fee_cancel_time = 0] ]

\* signer is the admin account of the instruction (has_one = admin on the
\* token config, which must exist)
init_armageddon_handler(cfg, signer) ==
    IF signer # cfg.admin
    THEN [err |-> "Unauthorized", state |-> ArmageddonStateDefault]
    ELSE [ err |-> "Ok",
           state |->
             [ level |-> 0,
               triggered_at |-> 0,
               lp_value_at_trigger |-> 0,
               baseline_lp_value |-> 0,
               trigger_authority |-> signer,
               recovery_authority |-> signer,
               recovery_threshold_bps |-> 12000,
               emergency_fee_bps |-> 300,
               emergency_lp_share_bps |-> 9000,
               trading_paused |-> FALSE,
               max_pause_duration |-> 24 * 60 * 60 ] ]

\* the level recorded in the Armageddon state only, not in the token config
trigger_handler_no_mirror(cfg, st, signer, level, t) ==
    LET fail(e) == [err |-> e, config |-> cfg, state |-> st] IN
    IF signer # cfg.admin THEN fail("Unauthorized")
    ELSE IF ~(level >= 1 /\ level <= 3) THEN fail("InvalidArmageddonLevel")
    ELSE [ err |-> "Ok",
           config |-> [cfg EXCEPT !.transfer_fee_bps = 300],
           state |->
             [st EXCEPT !.level = level,
                        !.triggered_at = t,
                        !.emergency_lp_share_bps = 9000,
                        !.trading_paused = IF level = 3 THEN TRUE ELSE @] ]

\* level is a u8; the three arms of the match differ only in trading_paused
trigger_handler(cfg, st, signer, level, t) ==
    LET fail(e) == [err |-> e, config |-> cfg, state |-> st] IN
    IF signer # cfg.admin THEN fail("Unauthorized")
    ELSE IF ~(level >= 1 /\ level <= 3) THEN fail("InvalidArmageddonLevel")
    ELSE [ err |-> "Ok",
           config |-> [cfg EXCEPT !.armageddon_level = level,
                                  !.transfer_fee_bps = 300],
           state |->
             [st EXCEPT !.level = level,
                        !.triggered_at = t,
                        !.emergency_lp_share_bps = 9000,
                        !.trading_paused = IF level = 3 THEN TRUE ELSE @] ]

\* the fee rate taken back to the minimum on recovery
recover_handler_reset_fee(cfg, st, signer) ==
    LET fail(e) == [err |-> e, config |-> cfg, state |-> st] IN
    IF signer # cfg.admin THEN fail("Unauthorized")
    ELSE IF ~(st.level > 0) THEN fail("NotInArmageddon")
    ELSE [ err |-> "Ok",
           config |-> [cfg EXCEPT !.armageddon_level = 0,
                                  !.transfer_fee_bps = MIN_TRANSFER_FEE_BPS],
           state |-> [st EXCEPT !.level = 0, !.trading_paused = FALSE] ]

recover_handler(cfg, st, signer) ==
    LET fail(e) == [err |-> e, config |-> cfg, state |-> st] IN
    IF signer # cfg.admin THEN fail("Unauthorized")
    ELSE IF ~(st.level > 0) THEN fail("NotInArmageddon")
    ELSE [ err |-> "Ok",
           config |-> [cfg EXCEPT !.armageddon_level = 0],
           state |-> [st EXCEPT !.level = 0, !.trading_paused = FALSE] ]

\* total_fees is the placeholder 0 the handler is written with, so it returns
\* before the split; the split it is written to compute for collected fees is
\* TokenConfig::calculate_distribution on the config's own shares.
distribute_handler(cfg) ==
    LET total_fees == 0 IN
    IF total_fees = 0
    THEN [err |-> "Ok", config |-> cfg]
    ELSE LET split == calculate_distribution(cfg, total_fees) IN
         [ err |-> split.err,
           config |-> [cfg EXCEPT !.total_fees_distributed = @ + total_fees] ]

-----------------------------------------------------------------------------
(* The state machine.  B bounds what the environment supplies:              *)
(* B.max_counter caps snapshot_counter, B.ages are the ages at which the    *)
(* clock is observed, B.amounts the amounts restored, B.keys the recipient  *)
(* and destination wallets, B.signers the signing keys and B.admins the     *)
(* keys the admin role is handed to.                                        *)
(*                                                                          *)
(* create_pool_and_lock locks 0 LP tokens (lp_tokens_received = 0), so a    *)
(* lock holds tokens only after the admin's first snapshot and restore.     *)
(* The specifications start from states reached that way; each start state  *)
(* is written as the composition of the handlers that reach it.             *)

FreshLock == create_pool_and_lock_handler("keyA", GenesisTime)

ManualSnapshot(lk) ==
    take_snapshot_handler(lk, lk.admin, "MANUAL", 1, 1, 1, 1, GenesisTime).lock

\* create_pool_and_lock; take_lp_snapshot -> #1; restore_from_snapshot(1, MaxAmount)
FundedLock ==
    restore_from_snapshot_handler(ManualSnapshot(FreshLock), "keyA", 1, MaxAmount,
                                  TRUE, GenesisTime).lock

Announced(lk, amount, recipient) ==
    announce_withdrawal_handler(lk, lk.admin, amount, recipient, "reason",
                                GenesisTime).lock

Restored(lk, id, lp_amount) ==
    restore_from_snapshot_handler(lk, lk.admin, id, lp_amount, TRUE, GenesisTime).lock

\* ... then three announcements (snapshots #2..#4), the first two of them followed
\* by a restore of their snapshot: every slot is active
FullLock ==
    Announced(
        Restored(
            Announced(
                Restored(Announced(FundedLock, 1, "keyA"), 2, MaxAmount),
                MaxAmount, "keyB"),
            3, MaxAmount),
        0, "keyA")

\* ... or one announcement and three manual snapshots: the ring is full (#1..#5)
RingLock ==
    ManualSnapshot(ManualSnapshot(ManualSnapshot(Announced(FundedLock, 1, "keyB"))))

\* ... or one announcement (snapshot #2), four manual snapshots and restores of
\* #3, #4 and #5: the ring holds #2..#6 and the next snapshot overwrites the
\* pending request's #2
ProvLock ==
    Restored(Restored(Restored(ManualSnapshot(RingLock), 3, MaxAmount), 4, MaxAmount),
             5, MaxAmount)

Init ==
    /\ now = GenesisTime
    /\ lp_lock = FundedLock
    /\ restored_ids = {1}
    /\ vault = DevVestingVaultDefault
    /\ distribution = NoDistribution
    /\ treasury = DaoTreasuryVaultDefault
    /\ outflows = <<>>
    /\ token_config = TokenConfigDefault
    /\ armageddon_state = ArmageddonStateDefault
    /\ cap_call = NoCapCall
    /\ unlock_calls = <<>>
    /\ period_reset = NoPeriodReset

CapInit ==
    /\ now = GenesisTime
    /\ lp_lock = FullLock
    /\ restored_ids = {1, 2, 3}
    /\ vault = DevVestingVaultDefault
    /\ distribution = NoDistribution
    /\ treasury = DaoTreasuryVaultDefault
    /\ outflows = <<>>
    /\ token_config = TokenConfigDefault
    /\ armageddon_state = ArmageddonStateDefault
    /\ cap_call = NoCapCall
    /\ unlock_calls = <<>>
    /\ period_reset = NoPeriodReset

RingInit ==
    /\ now = GenesisTime
    /\ lp_lock = RingLock
    /\ restored_ids = {1}
    /\ vault = DevVestingVaultDefault
    /\ distribution = NoDistribution
    /\ treasury = DaoTreasuryVaultDefault
    /\ outflows = <<>>
    /\ token_config = TokenConfigDefault
    /\ armageddon_state = ArmageddonStateDefault
    /\ cap_call = NoCapCall
    /\ unlock_calls = <<>>
    /\ period_reset = NoPeriodReset

ProvInit ==
    /\ now = GenesisTime
    /\ lp_lock = ProvLock
    /\ restored_ids = {1, 3, 4, 5}
    /\ vault = DevVestingVaultDefault
    /\ distribution = NoDistribution
    /\ treasury = DaoTreasuryVaultDefault
    /\ outflows = <<>>
    /\ token_config = TokenConfigDefault
    /\ armageddon_state = ArmageddonStateDefault
    /\ cap_call = NoCapCall
    /\ unlock_calls = <<>>
    /\ period_reset = NoPeriodReset

Tick(B) ==
    /\ \E a \in B.ages :
          /\ lp_lock.created_at + a > now
          /\ now' = lp_lock.created_at + a
    /\ UNCHANGED <<lp_lock, restored_ids, vault, distribution,
                 treasury, outflows, token_config, armageddon_state, cap_call,
                   unlock_calls, period_reset>>

TakeSnapshot(B) ==
    /\ lp_lock.snapshot_counter < B.max_counter
    /\ \E signer \in B.signers :
          LET r == take_snapshot_handler(lp_lock, signer, "MANUAL", 1, 1, 1, 1, now) IN
          /\ lp_lock' = Commit(r)
    /\ UNCHANGED <<now, restored_ids, vault, distribution,
                 treasury, outflows, token_config, armageddon_state, cap_call,
                   unlock_calls, period_reset>>

AnnounceWithdrawal(B) ==
    /\ lp_lock.snapshot_counter < B.max_counter
    /\ \E signer \in B.signers, amount \in 0 .. (lp_lock.lp_tokens_locked + 1),
          recipient \in B.keys :
          LET r == announce_withdrawal_handler(lp_lock, signer, amount, recipient,
                                               "reason", now) IN
          /\ lp_lock' = Commit(r)
    /\ UNCHANGED <<now, restored_ids, vault, distribution,
                 treasury, outflows, token_config, armageddon_state, cap_call,
                   unlock_calls, period_reset>>

ExecuteWithdrawal(B) ==
    /\ \E slot \in SlotInputs, dest \in B.keys, transfer_ok \in BOOLEAN :
          LET r == execute_withdrawal_handler(lp_lock, slot, dest, transfer_ok, now) IN
          /\ lp_lock' = Commit(r)
    /\ UNCHANGED <<now, restored_ids, vault, distribution,
                 treasury, outflows, token_config, armageddon_state, cap_call,
                   unlock_calls, period_reset>>

CancelWithdrawal(B) ==
    /\ \E signer \in B.signers, slot \in SlotInputs :
          LET r == cancel_withdrawal_handler(lp_lock, signer, slot) IN
          /\ lp_lock' = Commit(r)
    /\ UNCHANGED <<now, restored_ids, vault, distribution,
                 treasury, outflows, token_config, armageddon_state, cap_call,
                   unlock_calls, period_reset>>

RestoreFromSnapshot(B) ==
    /\ \E signer \in B.signers, snapshot_id \in SnapshotIdInputs(lp_lock),
          lp_amount \in B.amounts, transfer_ok \in BOOLEAN :
          LET r == restore_from_snapshot_handler(lp_lock, signer, snapshot_id,
                                                 lp_amount, transfer_ok, now) IN
          /\ lp_lock' = Commit(r)
          /\ restored_ids' = IF r.err = "Ok" THEN restored_ids \cup {snapshot_id}
                                             ELSE restored_ids
    /\ UNCHANGED <<now, vault, distribution,
                 treasury, outflows, token_config, armageddon_state, cap_call,
                   unlock_calls, period_reset>>

TransferAdmin(B) ==
    /\ \E signer \in B.signers, new_admin \in B.admins :
          LET r == transfer_admin_handler(lp_lock, signer, new_admin) IN
          /\ lp_lock' = Commit(r)
    /\ UNCHANGED <<now, restored_ids, vault, distribution,
                 treasury, outflows, token_config, armageddon_state, cap_call,
                   unlock_calls, period_reset>>

NextB(B) ==
    \/ Tick(B)
    \/ TakeSnapshot(B)
    \/ AnnounceWithdrawal(B)
    \/ ExecuteWithdrawal(B)
    \/ CancelWithdrawal(B)
    \/ RestoreFromSnapshot(B)
    \/ TransferAdmin(B)

\* the timelock slice: a funded lock, every phase boundary, NewSnapshots more
\* snapshots
MainBounds ==
    [ max_counter |-> FundedLock.snapshot_counter + NewSnapshots,
      ages |-> ClockAges, amounts |-> {1, MaxAmount}, keys |-> {"keyB"},
      signers |-> {"keyA"}, admins |-> {"keyA"} ]

Next == NextB(MainBounds)

Spec == Init /\ [][Next]_vars

\* the capacity slice: all three slots active, the clock crossing both phase
\* boundaries, the admin role changing hands
CapBounds ==
    [ max_counter |-> FullLock.snapshot_counter + NewSnapshots,
      ages |-> CapAges, amounts |-> {1}, keys |-> {"keyA"},
      signers |-> Pubkeys, admins |-> Pubkeys ]

CapNext == NextB(CapBounds)

CapSpec == CapInit /\ [][CapNext]_vars

\* the ring slice: the snapshot ring full, so that the next snapshot rotates it
RingBounds ==
    [ max_counter |-> RingLock.snapshot_counter + NewSnapshots,
      ages |-> RingAges, amounts |-> {MaxAmount}, keys |-> {"keyA"},
      signers |-> {"keyA"}, admins |-> {"keyA"} ]

RingNext == NextB(RingBounds)

RingSpec == RingInit /\ [][RingNext]_vars

\* the provenance slice: a request pending whose snapshot is the oldest in the ring
ProvBounds ==
    [ max_counter |-> ProvLock.snapshot_counter + NewSnapshots,
      ages |-> RingAges, amounts |-> {MaxAmount}, keys |-> {"keyA"},
      signers |-> {"keyA"}, admins |-> {"keyA"} ]

ProvNext == NextB(ProvBounds)

ProvSpec == ProvInit /\ [][ProvNext]_vars

-----------------------------------------------------------------------------
(* The vesting vault as a state machine: the clock, request_dev_unlock and  *)
(* execute_dev_unlock on a vault created by init_dev_vesting.               *)

\* ages (seconds since initialized_at) at which the clock is observed
VestAges ==
    { DEFAULT_CLIFF_SECONDS - 1,
      DEFAULT_CLIFF_SECONDS,
      DEFAULT_CLIFF_SECONDS + DEFAULT_TIMELOCK_SECONDS - 1,
      DEFAULT_CLIFF_SECONDS + DEFAULT_TIMELOCK_SECONDS,
      18 * (30 * 24 * 60 * 60) - 1,
      18 * (30 * 24 * 60 * 60),
      19 * (30 * 24 * 60 * 60) }

\* amounts a request is tried with: around the dust floor and around the cap
\* in force at time t
RequestAmounts(v, t) ==
    { MIN_TRANSFER_AMOUNT - 1, MIN_TRANSFER_AMOUNT,
      max_unlockable(update_unlock_rate(v, t)),
      max_unlockable(update_unlock_rate(v, t)) + 1 }

VestInit ==
    /\ now = VestGenesis
    /\ \E liquid_at_tge \in {0, MaxAllocation \div 2} :
          vault = init_dev_handler("keyA", MaxAllocation, liquid_at_tge,
                                   DEFAULT_CLIFF_SECONDS, DEFAULT_VESTING_SECONDS,
                                   VestGenesis).vault
    /\ lp_lock = FreshLock
    /\ restored_ids = {}
    /\ distribution = NoDistribution
    /\ treasury = DaoTreasuryVaultDefault
    /\ outflows = <<>>
    /\ token_config = TokenConfigDefault
    /\ armageddon_state = ArmageddonStateDefault
    /\ cap_call = NoCapCall
    /\ unlock_calls = <<>>
    /\ period_reset = NoPeriodReset

VestTick ==
    /\ \E a \in VestAges :
          /\ vault.initialized_at + a > now
          /\ now' = vault.initialized_at + a
    /\ UNCHANGED <<lp_lock, restored_ids, vault, distribution,
                 treasury, outflows, token_config, armageddon_state, cap_call,
                   unlock_calls, period_reset>>

RequestDevUnlock ==
    /\ \E signer \in Pubkeys, amount \in RequestAmounts(vault, now) :
          LET r == request_unlock_handler(vault, signer, amount, now) IN
          /\ vault' = CommitVault(r)
          /\ unlock_calls' =
                IF r.err = "Ok"
                THEN Append(unlock_calls,
                            [call |-> "request", at |-> now, amount |-> amount,
                             locked |-> vault.locked_amount])
                ELSE unlock_calls
    /\ UNCHANGED <<lp_lock, now, restored_ids, distribution,
                 treasury, outflows, token_config, armageddon_state, cap_call, period_reset>>

ExecuteDevUnlock ==
    /\ \E signer \in Pubkeys, transfer_ok \in BOOLEAN :
          LET r == execute_unlock_handler(vault, signer, transfer_ok, now) IN
          /\ vault' = CommitVault(r)
          /\ unlock_calls' =
                IF r.err = "Ok"
                THEN Append(unlock_calls,
                            [call |-> "execute", at |-> now, amount |-> r.paid,
                             locked |-> vault.locked_amount])
                ELSE unlock_calls
    /\ UNCHANGED <<lp_lock, now, restored_ids, distribution,
                 treasury, outflows, token_config, armageddon_state, cap_call, period_reset>>

VestNext ==
    \/ VestTick
    \/ RequestDevUnlock
    \/ ExecuteDevUnlock

VestSpec == VestInit /\ [][VestNext]_vars

-----------------------------------------------------------------------------
(* calculate_distribution applied to a fee amount under a configuration     *)
(* whose shares sum to 10000 (the only configurations init and update       *)
(* accept).                                                                 *)

FeeAmounts == {0, 1, 3, MIN_TRANSFER_AMOUNT - 1, 9999, 10000, 10001, MaxFee}

ShareValues == {0, 1, 1500, 3333, 7000, 9999, 10000}

FeeInit ==
    /\ \E fee_amount \in FeeAmounts, lp \in ShareValues, burn \in ShareValues :
          /\ lp + burn <= 10000
          /\ distribution = [NoDistribution EXCEPT
                                !.fee_amount = fee_amount,
                                !.lp_share_bps = lp,
                                !.burn_share_bps = burn,
                                !.treasury_share_bps = 10000 - lp - burn]
    /\ now = GenesisTime
    /\ lp_lock = FreshLock
    /\ restored_ids = {}
    /\ vault = DevVestingVaultDefault
    /\ treasury = DaoTreasuryVaultDefault
    /\ outflows = <<>>
    /\ token_config = TokenConfigDefault
    /\ armageddon_state = ArmageddonStateDefault
    /\ cap_call = NoCapCall
    /\ unlock_calls = <<>>
    /\ period_reset = NoPeriodReset

CalculateDistribution ==
    /\ ~distribution.called
    /\ LET r == calculate_distribution(distribution, distribution.fee_amount) IN
       distribution' = [distribution EXCEPT !.called = TRUE, !.err = r.err,
                                            !.to_lp = r.to_lp,
                                            !.to_burn = r.to_burn,
                                            !.to_treasury = r.to_treasury]
    /\ UNCHANGED <<lp_lock, now, restored_ids, vault,
                 treasury, outflows, token_config, armageddon_state, cap_call,
                   unlock_calls, period_reset>>

FeeNext == CalculateDistribution

FeeSpec == FeeInit /\ [][FeeNext]_vars

-----------------------------------------------------------------------------
(* The DAO treasury as a state machine: the clock, propose_dao_withdrawal   *)
(* and execute_dao_withdrawal on a treasury created by init_dao_treasury    *)
(* and credited with TreasuryBalance.                                       *)

TreasuryBalance == 1000
MaxSpendBps == 1000
TreasuryPeriod == 2592000

TokenAccounts == {"treasuryTokens", "otherTokens"}

\* reason strings, as bytes: shorter and longer ones, and one over the 128
\* bytes of the buffer
Reasons == {<<1>>, <<2, 2>>, [i \in 1..129 |-> 3]}

\* ages (seconds since the treasury was initialized) at which the clock is
\* observed: around the 48h timelock and around the end of the first period
TreasuryAges ==
    { 48 * 60 * 60 - 1, 48 * 60 * 60,
      TreasuryPeriod - 1, TreasuryPeriod,
      TreasuryPeriod + 48 * 60 * 60 - 1, TreasuryPeriod + 48 * 60 * 60 }

\* amounts a proposal is tried with: around the dust floor and around the
\* amount spendable at time t
ProposeAmounts(tr, t) ==
    LET t1 == IF should_reset_period(tr, t) THEN reset_period(tr, t) ELSE tr IN
    { MIN_TRANSFER_AMOUNT - 1, MIN_TRANSFER_AMOUNT,
      max_spendable(t1), max_spendable(t1) + 1 }

\* the runtime keeps the account of a failed instruction as it was
CommitTreasury(r) == IF r.err = "Ok" THEN r.treasury ELSE treasury

TreasuryInit ==
    /\ now = VestGenesis
    /\ treasury = credit_treasury(
                      init_handler("treasuryTokens", "keyA", MaxSpendBps,
                                   TreasuryPeriod, VestGenesis).treasury,
                      TreasuryBalance)
    /\ outflows = <<>>
    /\ lp_lock = FreshLock
    /\ restored_ids = {}
    /\ vault = DevVestingVaultDefault
    /\ distribution = NoDistribution
    /\ token_config = TokenConfigDefault
    /\ armageddon_state = ArmageddonStateDefault
    /\ cap_call = NoCapCall
    /\ unlock_calls = <<>>
    /\ period_reset = [balance |-> treasury.balance, outflows |-> 0]

TreasuryTick ==
    /\ \E a \in TreasuryAges :
          /\ VestGenesis + a > now
          /\ now' = VestGenesis + a
    /\ UNCHANGED <<lp_lock, restored_ids, vault, distribution,
                   treasury, outflows, token_config, armageddon_state, cap_call,
                   unlock_calls, period_reset>>

ProposeDaoWithdrawal ==
    /\ \E signer \in Pubkeys, amount \in ProposeAmounts(treasury, now),
          recipient \in Pubkeys, reason \in Reasons :
          LET r == propose_handler(treasury, signer, amount, recipient,
                                   reason, now) IN
          /\ treasury' = CommitTreasury(r)
          /\ period_reset' =
                IF r.err = "Ok" /\ should_reset_period(treasury, now)
                THEN [balance |-> treasury.balance, outflows |-> Len(outflows)]
                ELSE period_reset
    /\ UNCHANGED <<lp_lock, now, restored_ids, vault, distribution,
                   outflows, token_config, armageddon_state, cap_call,
                   unlock_calls>>

ExecuteDaoWithdrawal ==
    /\ \E acct \in TokenAccounts, owner \in Pubkeys \cup {DefaultPubkey},
          transfer_ok \in BOOLEAN :
          LET r == execute_handler(treasury, acct, owner, transfer_ok, now) IN
          /\ treasury' = CommitTreasury(r)
          /\ outflows' = IF r.err = "Ok"
                         THEN Append(outflows,
                                     [at |-> now, amount |-> r.paid,
                                      balance_before |-> treasury.balance])
                         ELSE outflows
    /\ UNCHANGED <<lp_lock, now, restored_ids, vault, distribution,
                   token_config, armageddon_state, cap_call,
                   unlock_calls, period_reset>>

TreasuryNext ==
    \/ TreasuryTick
    \/ ProposeDaoWithdrawal
    \/ ExecuteDaoWithdrawal

TreasurySpec == TreasuryInit /\ [][TreasuryNext]_vars

-----------------------------------------------------------------------------
(* The token config and the Armageddon state as a state machine: the clock, *)
(* the three fee-change instructions, trigger_armageddon,                   *)
(* recover_from_armageddon and distribute_fees on accounts created by       *)
(* init_token_config and init_armageddon.                                   *)

\* fee rates tried: the two ends of the permitted range, one inside, and the
\* first one outside at each end
FeeRates ==
    { MIN_TRANSFER_FEE_BPS - 1, MIN_TRANSFER_FEE_BPS, 200,
      MAX_TRANSFER_FEE_BPS, MAX_TRANSFER_FEE_BPS + 1 }

\* Armageddon levels tried (the argument is a u8)
LevelInputs == {0, 1, 2, 3, 4, 255}

\* ages (seconds since init_token_config) at which the clock is observed: the
\* ends of the windows of changes announced at 0, 24h and 48h
ConfigAges ==
    { FEE_CHANGE_TIMELOCK_SECONDS - 1, FEE_CHANGE_TIMELOCK_SECONDS,
      2 * FEE_CHANGE_TIMELOCK_SECONDS - 1, 2 * FEE_CHANGE_TIMELOCK_SECONDS,
      3 * FEE_CHANGE_TIMELOCK_SECONDS - 1, 3 * FEE_CHANGE_TIMELOCK_SECONDS }

\* the runtime keeps the accounts of a failed instruction as they were
CommitConfig(r) == IF r.err = "Ok" THEN r.config ELSE token_config

CommitArmageddon(r) == IF r.err = "Ok" THEN r.state ELSE armageddon_state

ConfigInit ==
    /\ now = VestGenesis
    /\ \E fee \in FeeRates :
          LET r == init_token_config_handler("keyA", fee, 7000, 1500, 1500,
                                             VestGenesis) IN
          /\ r.err = "Ok"
          /\ token_config = r.config
          /\ armageddon_state = init_armageddon_handler(r.config, "keyA").state
    /\ treasury = DaoTreasuryVaultDefault
    /\ outflows = <<>>
    /\ lp_lock = FreshLock
    /\ restored_ids = {}
    /\ vault = DevVestingVaultDefault
    /\ distribution = NoDistribution
    /\ cap_call = NoCapCall
    /\ unlock_calls = <<>>
    /\ period_reset = NoPeriodReset

ConfigTick ==
    /\ \E a \in ConfigAges :
          /\ VestGenesis + a > now
          /\ now' = VestGenesis + a
    /\ UNCHANGED <<lp_lock, restored_ids, vault, distribution,
                   treasury, outflows, token_config, armageddon_state, cap_call,
                   unlock_calls, period_reset>>

AnnounceFeeChange ==
    /\ \E signer \in Pubkeys, new_fee_bps \in FeeRates :
          token_config' = CommitConfig(announce_fee_change_handler(
                                           token_config, signer, new_fee_bps, now))
    /\ UNCHANGED <<lp_lock, now, restored_ids, vault, distribution,
                   treasury, outflows, armageddon_state, cap_call,
                   unlock_calls, period_reset>>

ExecuteFeeChange ==
    /\ \E signer \in Pubkeys :
          token_config' = CommitConfig(execute_fee_change_handler(
                                           token_config, signer, now))
    /\ UNCHANGED <<lp_lock, now, restored_ids, vault, distribution,
                   treasury, outflows, armageddon_state, cap_call,
                   unlock_calls, period_reset>>

CancelFeeChange ==
    /\ \E signer \in Pubkeys :
          token_config' = CommitConfig(cancel_fee_change_handler(
                                           token_config, signer, now))
    /\ UNCHANGED <<lp_lock, now, restored_ids, vault, distribution,
                   treasury, outflows, armageddon_state, cap_call,
                   unlock_calls, period_reset>>

TriggerArmageddon ==
    /\ \E signer \in Pubkeys, level \in LevelInputs :
          LET r == trigger_handler(token_config, armageddon_state, signer,
                                   level, now) IN
          /\ token_config' = CommitConfig(r)
          /\ armageddon_state' = CommitArmageddon(r)
    /\ UNCHANGED <<lp_lock, now, restored_ids, vault, distribution,
                   treasury, outflows, cap_call,
                   unlock_calls, period_reset>>

RecoverFromArmageddon ==
    /\ \E signer \in Pubkeys :
          LET r == recover_handler(token_config, armageddon_state, signer) IN
          /\ token_config' = CommitConfig(r)
          /\ armageddon_state' = CommitArmageddon(r)
    /\ UNCHANGED <<lp_lock, now, restored_ids, vault, distribution,
                   treasury, outflows, cap_call,
                   unlock_calls, period_reset>>

DistributeFees ==
    /\ token_config' = CommitConfig(distribute_handler(token_config))
    /\ UNCHANGED <<lp_lock, now, restored_ids, vault, distribution,
                   treasury, outflows, armageddon_state, cap_call,
                   unlock_calls, period_reset>>

ConfigNext ==
    \/ ConfigTick
    \/ AnnounceFeeChange
    \/ ExecuteFeeChange
    \/ CancelFeeChange
    \/ TriggerArmageddon
    \/ RecoverFromArmageddon
    \/ DistributeFees

ConfigSpec == ConfigInit /\ [][ConfigNext]_vars

-----------------------------------------------------------------------------
(* max_unlockable applied to a 64-bit locked_amount under the two rates     *)
(* update_unlock_rate sets.                                                 *)

\* locked amounts over the whole u64 range, u64::MAX among them
LockedAmounts64 ==
    { x \in { <<a, b, b, c, d, 0>> : a \in {0, 9999}, b \in {0, 5000},
                                     c \in {0, 6744},
                                     d \in {0, 1, 18, 19, 184, 1844} } :
          ~limbs_greater(x, U64_MAX, 6) } \cup {U64_MAX}

UnlockCapInit ==
    /\ \E locked_amount \in LockedAmounts64, rate \in {500, 1000} :
          cap_call = [NoCapCall EXCEPT !.locked_amount = locked_amount,
                                       !.unlock_rate_bps = rate]
    /\ unlock_calls = <<>>
    /\ period_reset = NoPeriodReset
    /\ now = VestGenesis
    /\ vault = DevVestingVaultDefault
    /\ lp_lock = FreshLock
    /\ restored_ids = {}
    /\ distribution = NoDistribution
    /\ treasury = DaoTreasuryVaultDefault
    /\ outflows = <<>>
    /\ token_config = TokenConfigDefault
    /\ armageddon_state = ArmageddonStateDefault

MaxUnlockable ==
    /\ ~cap_call.called
    /\ cap_call' = [cap_call EXCEPT
                       !.called = TRUE,
                       !.cap = max_unlockable_u64(cap_call.locked_amount,
                                                  cap_call.unlock_rate_bps)]
    /\ UNCHANGED <<lp_lock, now, restored_ids, vault, distribution,
                   treasury, outflows, token_config, armageddon_state,
                   unlock_calls, period_reset>>

UnlockCapNext == MaxUnlockable

UnlockCapSpec == UnlockCapInit /\ [][UnlockCapNext]_vars

(***************************************************************************)
(* Properties of the custody lock.  An attempt is the result a handler     *)
(* returns in the current state; the properties range over every attempt   *)
(* that could be made in every reachable state.                            *)
(***************************************************************************)

\* the three-tier notice table, by lock age
NoticeForAge(age) ==
    IF age < PHASE1_DURATION_SECONDS THEN PHASE1_TIMELOCK_SECONDS
    ELSE IF age < PHASE2_DURATION_SECONDS THEN PHASE2_TIMELOCK_SECONDS
    ELSE PHASE3_TIMELOCK_SECONDS

\* C1: executing an active request fails while now < execute_after and leaves
\* the lock unchanged; an execute attempt at now >= execute_after (its token
\* transfer going through) succeeds and clears the slot
C1_TimelockGatesExecution ==
    \A slot \in SlotIdx : \A dest \in Pubkeys : \A transfer_ok \in BOOLEAN :
        LET pw == lp_lock.pending_withdrawals[slot]
            r == execute_withdrawal_handler(lp_lock, slot, dest, transfer_ok, now)
        IN  pw.is_active =>
                /\ (now < pw.execute_after) =>
                      (r.err = "TimelockNotExpired" /\ Commit(r) = lp_lock)
                /\ (now >= pw.execute_after /\ transfer_ok) =>
                      (r.err = "Ok" /\ ~r.lock.pending_withdrawals[slot].is_active)

\* a request announced at genesis was executed at the first permitted instant
C1_Witness ==
    /\ lp_lock.total_withdrawn > 0
    /\ now = lp_lock.created_at + PHASE1_TIMELOCK_SECONDS

\* C2: a successful execute delivers the tokens to the recipient recorded at
\* announcement, whatever destination account the caller passes
C2_PaidToRecordedRecipient ==
    \A slot \in SlotIdx : \A dest \in Pubkeys :
        LET r == execute_withdrawal_handler(lp_lock, slot, dest, TRUE, now)
        IN  r.err = "Ok" => r.to = lp_lock.pending_withdrawals[slot].recipient

\* C3: pending_count is the number of active slots and never exceeds three; an
\* authorised announcement with all three slots active fails with
\* TooManyPendingWithdrawals and changes nothing; with a slot free it succeeds
\* and occupies a slot that was free
C3_SlotCapacity ==
    /\ lp_lock.pending_count = Cardinality(ActiveSlots(lp_lock))
    /\ lp_lock.pending_count <= MAX_PENDING_WITHDRAWALS
    /\ \A amount \in 0 .. lp_lock.lp_tokens_locked : \A recipient \in Pubkeys :
        LET r == announce_withdrawal_handler(lp_lock, lp_lock.admin, amount,
                                             recipient, "reason", now)
        IN  IF ActiveSlots(lp_lock) = SlotIdx
            THEN r.err = "TooManyPendingWithdrawals" /\ Commit(r) = lp_lock
            ELSE /\ r.err = "Ok"
                 /\ r.slot \in SlotIdx \ ActiveSlots(lp_lock)
                 /\ ActiveSlots(r.lock) = ActiveSlots(lp_lock) \cup {r.slot}
                 /\ \A s \in ActiveSlots(lp_lock) :
                        r.lock.pending_withdrawals[s] = lp_lock.pending_withdrawals[s]

\* a slot was freed and announced again: the lock is full, one slot holding the
\* request announced with the snapshot taken after the opening three
C3_Witness ==
    /\ ActiveSlots(lp_lock) = SlotIdx
    /\ \E s \in SlotIdx :
          lp_lock.pending_withdrawals[s].snapshot_id = FullLock.snapshot_counter + 1

\* C4: a successful execute of a request for amount a lowers lp_tokens_locked by
\* exactly a, raises total_withdrawn by a, clears the slot, and sets the status
\* to WithdrawalPending if another slot is active, else Withdrawn if nothing is
\* left locked, else Active
C4_ExecuteAccounting ==
    \A slot \in SlotIdx :
        LET a == lp_lock.pending_withdrawals[slot].amount
            r == execute_withdrawal_handler(lp_lock, slot, "keyA", TRUE, now)
        IN  r.err = "Ok" =>
                /\ r.lock.lp_tokens_locked = lp_lock.lp_tokens_locked - a
                /\ r.lock.total_withdrawn = lp_lock.total_withdrawn + a
                /\ r.lock.pending_withdrawals[slot] = PendingWithdrawalDefault
                /\ r.lock.status =
                      IF ActiveSlots(r.lock) # {} THEN "WithdrawalPending"
                      ELSE IF r.lock.lp_tokens_locked = 0 THEN "Withdrawn"
                      ELSE "Active"

\* C5: an announcement is accepted only for an amount between 1 and the locked
\* balance; amount 0 and amounts above the balance are rejected with no change
C5_AnnounceAmountRange ==
    \A amount \in 0 .. (lp_lock.lp_tokens_locked + 1) : \A recipient \in Pubkeys :
        LET r == announce_withdrawal_handler(lp_lock, lp_lock.admin, amount,
                                             recipient, "reason", now)
        IN  /\ r.err = "Ok" => (1 <= amount /\ amount <= lp_lock.lp_tokens_locked)
            /\ (amount = 0 \/ amount > lp_lock.lp_tokens_locked) =>
                  (r.err # "Ok" /\ Commit(r) = lp_lock)

\* C6: the notice applied to an announcement is read from the lock's age at the
\* announcement (12 hours below 3 days, 15 days below 15 days, 30 days from
\* then on), never from the stored phase, and execute_after = now + notice; the
\* notice never decreases as the lock ages
C6_NoticeFromAge ==
    /\ \A amount \in 0 .. lp_lock.lp_tokens_locked : \A recipient \in Pubkeys :
       \A stored \in {"Emergency", "Stabilization", "Permanent"} :
        LET r == announce_withdrawal_handler([lp_lock EXCEPT !.phase = stored],
                     lp_lock.admin, amount, recipient, "reason", now)
        IN  r.err = "Ok" =>
              /\ r.lock.pending_withdrawals[r.slot].announced_at = now
              /\ r.lock.pending_withdrawals[r.slot].execute_after =
                    now + NoticeForAge(now - lp_lock.created_at)
    /\ \A a1 \in ClockAges : \A a2 \in ClockAges :
          a1 <= a2 =>
              get_required_timelock(lp_lock, lp_lock.created_at + a1)
                 <= get_required_timelock(lp_lock, lp_lock.created_at + a2)

\* a request announced on day 15 carries the 30-day notice although the stored
\* phase still reads Emergency
C6_Witness ==
    \E s \in SlotIdx :
        LET pw == lp_lock.pending_withdrawals[s]
        IN  /\ pw.is_active
            /\ pw.announced_at = lp_lock.created_at + PHASE2_DURATION_SECONDS
            /\ pw.execute_after = pw.announced_at + PHASE3_TIMELOCK_SECONDS
            /\ lp_lock.phase = "Emergency"

\* C7: while a slot stays active, its amount, recipient, announced_at,
\* execute_after and snapshot_id (the whole request) are left as announced by
\* every operation and every passage of time
C7_AnnouncedRequestFrozen ==
    [][\A s \in SlotIdx :
          (lp_lock.pending_withdrawals[s].is_active
              /\ lp_lock'.pending_withdrawals[s].is_active)
          => lp_lock'.pending_withdrawals[s] = lp_lock.pending_withdrawals[s]]_vars

\* the request announced at genesis under the 12-hour notice is still pending
\* on day 15, after a later announcement and a change of admin
C7_Witness ==
    /\ lp_lock.pending_withdrawals[0].is_active
    /\ lp_lock.pending_withdrawals[0].announced_at = GenesisTime
    /\ lp_lock.pending_withdrawals[0].execute_after =
          GenesisTime + PHASE1_TIMELOCK_SECONDS
    /\ now = lp_lock.created_at + PHASE2_DURATION_SECONDS
    /\ lp_lock.admin = "keyB"
    /\ lp_lock.snapshot_counter = FullLock.snapshot_counter + 1

\* C8: a snapshot id that has been restored is never restored again: every
\* later attempt fails and leaves the lock unchanged, with AlreadyFinalized
\* while the snapshot is still in the ring and with InvalidWithdrawalSlot once
\* the ring has overwritten it
C8_RestoreOnce ==
    \A id \in restored_ids : \A lp_amount \in {0, MaxAmount} : \A transfer_ok \in BOOLEAN :
        LET r == restore_from_snapshot_handler(lp_lock, lp_lock.admin, id,
                                               lp_amount, transfer_ok, now)
        IN  /\ r.err = IF has_snapshot(lp_lock, id) THEN "AlreadyFinalized"
                       ELSE "InvalidWithdrawalSlot"
            /\ Commit(r) = lp_lock

\* C8 as stated: every later restore of a restored id fails with
\* AlreadyFinalized
C8_AlwaysAlreadyFinalized ==
    \A id \in restored_ids : \A lp_amount \in {0, MaxAmount} : \A transfer_ok \in BOOLEAN :
        LET r == restore_from_snapshot_handler(lp_lock, lp_lock.admin, id,
                                               lp_amount, transfer_ok, now)
        IN  r.err = "AlreadyFinalized" /\ Commit(r) = lp_lock

\* one restored snapshot is still in the ring, another has been overwritten
C8_Witness ==
    /\ \E id \in restored_ids : has_snapshot(lp_lock, id)
    /\ \E id \in restored_ids : ~has_snapshot(lp_lock, id)

\* C9: a restore succeeds only for an id that is in the ring and not yet
\* restored (and then does succeed when its transfer goes through); id 0, an id
\* never issued and an id the ring has overwritten fail with the lock
\* unchanged; a successful restore sets lp_tokens_locked to the supplied
\* amount and the status to Restored, marks the snapshot restored, and leaves
\* the slots, pending_count, total_withdrawn and snapshot_counter alone
C9_RestoreEffect ==
    \A id \in SnapshotIdInputs(lp_lock) : \A lp_amount \in {0, MaxAmount} :
    \A transfer_ok \in BOOLEAN :
        LET r == restore_from_snapshot_handler(lp_lock, lp_lock.admin, id,
                                               lp_amount, transfer_ok, now)
            in_ring == /\ 1 <= id
                       /\ id <= lp_lock.snapshot_counter
                       /\ id + MAX_SNAPSHOTS > lp_lock.snapshot_counter
        IN  /\ r.err = "Ok" <=> (in_ring /\ id \notin restored_ids /\ transfer_ok)
            /\ ~in_ring => r.err = "InvalidWithdrawalSlot"
            /\ r.err # "Ok" => Commit(r) = lp_lock
            /\ r.err = "Ok" =>
                  /\ r.lock.lp_tokens_locked = lp_amount
                  /\ r.lock.status = "Restored"
                  /\ \A i \in RingIdx :
                        r.lock.snapshots[i] =
                            IF lp_lock.snapshots[i].id = id
                            THEN [lp_lock.snapshots[i] EXCEPT !.was_restored = TRUE]
                            ELSE lp_lock.snapshots[i]
                  /\ r.lock.pending_withdrawals = lp_lock.pending_withdrawals
                  /\ r.lock.pending_count = lp_lock.pending_count
                  /\ r.lock.total_withdrawn = lp_lock.total_withdrawn
                  /\ r.lock.snapshot_counter = lp_lock.snapshot_counter

\* after the ring rotated, a snapshot still in it was restored while a request
\* was pending
C9_Witness ==
    /\ lp_lock.snapshot_counter = RingLock.snapshot_counter + 1
    /\ \E id \in restored_ids : id > 1 /\ get_snapshot(lp_lock, id).was_restored
    /\ lp_lock.status = "Restored"
    /\ lp_lock.lp_tokens_locked = MaxAmount
    /\ ActiveSlots(lp_lock) # {}

\* C10: in every reachable state the status is WithdrawalPending exactly when
\* at least one slot is active
C10_StatusTracksSlots ==
    (lp_lock.status = "WithdrawalPending") <=> (ActiveSlots(lp_lock) # {})

\* C11: once the status is Withdrawn, no announce, execute or cancel that
\* succeeds moves it away from Withdrawn
C11_WithdrawnTerminal ==
    lp_lock.status = "Withdrawn" =>
        /\ \A amount \in 0 .. (lp_lock.lp_tokens_locked + 1) : \A recipient \in Pubkeys :
              LET r == announce_withdrawal_handler(lp_lock, lp_lock.admin, amount,
                                                   recipient, "reason", now)
              IN  r.err = "Ok" => r.lock.status = "Withdrawn"
        /\ \A slot \in SlotInputs : \A dest \in Pubkeys :
              LET r == execute_withdrawal_handler(lp_lock, slot, dest, TRUE, now)
              IN  r.err = "Ok" => r.lock.status = "Withdrawn"
        /\ \A slot \in SlotInputs :
              LET r == cancel_withdrawal_handler(lp_lock, lp_lock.admin, slot)
              IN  r.err = "Ok" => r.lock.status = "Withdrawn"

\* C12: the admin's cancel of an inactive slot fails with NoActiveWithdrawal and
\* changes nothing; of an active slot it succeeds at any time, clears exactly
\* that slot and decrements pending_count, leaving lp_tokens_locked,
\* total_withdrawn, the other slots and the snapshot ring as they were
C12_CancelEffect ==
    \A slot \in SlotIdx :
        LET r == cancel_withdrawal_handler(lp_lock, lp_lock.admin, slot)
        IN  IF ~lp_lock.pending_withdrawals[slot].is_active
            THEN r.err = "NoActiveWithdrawal" /\ Commit(r) = lp_lock
            ELSE /\ r.err = "Ok"
                 /\ r.lock.pending_withdrawals[slot] = PendingWithdrawalDefault
                 /\ r.lock.pending_count = lp_lock.pending_count - 1
                 /\ r.lock.lp_tokens_locked = lp_lock.lp_tokens_locked
                 /\ r.lock.total_withdrawn = lp_lock.total_withdrawn
                 /\ r.lock.snapshots = lp_lock.snapshots
                 /\ r.lock.snapshot_counter = lp_lock.snapshot_counter
                 /\ \A other \in SlotIdx \ {slot} :
                       r.lock.pending_withdrawals[other] =
                           lp_lock.pending_withdrawals[other]

\* of the three opening requests one was cancelled (nothing was withdrawn, no
\* request was added) and the clock is past the execute_after of the others
C12_Witness ==
    /\ Cardinality(ActiveSlots(lp_lock)) = 2
    /\ lp_lock.pending_count = 2
    /\ lp_lock.total_withdrawn = 0
    /\ lp_lock.snapshot_counter = FullLock.snapshot_counter
    /\ now = lp_lock.created_at + PHASE1_DURATION_SECONDS

\* C13: an announcement takes a snapshot whose id it records in the request,
\* stamped with the announcement time and the balance locked at that moment;
\* the snapshot of a pending request is retrievable exactly until five later
\* snapshots have been taken
C13_Provenance ==
    /\ \A s \in ActiveSlots(lp_lock) :
          LET pw == lp_lock.pending_withdrawals[s]
          IN  /\ 1 <= pw.snapshot_id
              /\ pw.snapshot_id <= lp_lock.snapshot_counter
              /\ has_snapshot(lp_lock, pw.snapshot_id)
                    <=> (pw.snapshot_id + MAX_SNAPSHOTS > lp_lock.snapshot_counter)
              /\ has_snapshot(lp_lock, pw.snapshot_id) =>
                    /\ get_snapshot(lp_lock, pw.snapshot_id).timestamp = pw.announced_at
                    /\ get_snapshot(lp_lock, pw.snapshot_id).reason = "PRE_WITHDRAWAL__"
    /\ \A amount \in 0 .. lp_lock.lp_tokens_locked : \A recipient \in Pubkeys :
          LET r == announce_withdrawal_handler(lp_lock, lp_lock.admin, amount,
                                               recipient, "reason", now)
          IN  r.err = "Ok" =>
                /\ r.id = lp_lock.snapshot_counter + 1
                /\ r.lock.pending_withdrawals[r.slot].snapshot_id = r.id
                /\ get_snapshot(r.lock, r.id).lp_tokens = lp_lock.lp_tokens_locked
                /\ get_snapshot(r.lock, r.id).timestamp = now

\* C13 as stated: the snapshot of every pending request is in the ring
C13_SnapshotRetained ==
    \A s \in ActiveSlots(lp_lock) :
        has_snapshot(lp_lock, lp_lock.pending_withdrawals[s].snapshot_id)

\* two requests are pending: the snapshot of the older one has been overwritten,
\* the snapshot of the one just announced is in the ring
C13_Witness ==
    /\ \E s \in ActiveSlots(lp_lock) :
          ~has_snapshot(lp_lock, lp_lock.pending_withdrawals[s].snapshot_id)
    /\ \E s \in ActiveSlots(lp_lock) :
          lp_lock.pending_withdrawals[s].snapshot_id = ProvLock.snapshot_counter + 1

\* C14: lp_tokens_locked + total_withdrawn is decreased only by an execute and
\* increased only by a restore
C14_CustodyTotal ==
    [][LET before == lp_lock.lp_tokens_locked + lp_lock.total_withdrawn
           after == lp_lock'.lp_tokens_locked + lp_lock'.total_withdrawn
       IN  /\ after < before =>
                 \E slot \in SlotIdx : \E dest \in Pubkeys :
                     LET r == execute_withdrawal_handler(lp_lock, slot, dest, TRUE, now)
                     IN  r.err = "Ok" /\ lp_lock' = r.lock
           /\ after > before => restored_ids' # restored_ids]_vars

\* C15: the ring holds exactly the last five ids issued, max(1,k-4)..k for
\* counter k, the snapshot with id i at index (i-1) mod 5; every snapshot, manual
\* or taken by an announcement, gets the id k+1
C15_RingContents ==
    LET k == lp_lock.snapshot_counter
        valid == { i \in RingIdx : lp_lock.snapshots[i].is_valid }
    IN  /\ { lp_lock.snapshots[i].id : i \in valid }
              = { id \in 1 .. k : id + MAX_SNAPSHOTS > k }
        /\ \A i \in valid : i = (lp_lock.snapshots[i].id - 1) % MAX_SNAPSHOTS
        /\ LET r == take_snapshot_handler(lp_lock, lp_lock.admin, "MANUAL",
                                          1, 1, 1, 1, now)
           IN  /\ r.err = "Ok"
               /\ r.id = k + 1
               /\ r.lock.snapshot_counter = k + 1
               /\ r.lock.snapshots[k % MAX_SNAPSHOTS].id = k + 1
               /\ \A i \in RingIdx \ {k % MAX_SNAPSHOTS} :
                     r.lock.snapshots[i] = lp_lock.snapshots[i]

\* the sixth snapshot has taken the place of the first
C15_Witness ==
    /\ lp_lock.snapshot_counter = MAX_SNAPSHOTS + 1
    /\ lp_lock.snapshots[0].id = MAX_SNAPSHOTS + 1
    /\ lp_lock.snapshots[1].id = 2

(***************************************************************************)
(* Properties of the fee distribution and of the vesting vault.            *)
(***************************************************************************)

\* C16: for shares summing to 10000, calculate_distribution does not fail and
\* returns to_lp = floor(fee_amount * lp / 10000), to_burn = floor(fee_amount *
\* burn / 10000) and to_treasury = fee_amount - to_lp - to_burn, three
\* non-negative amounts that sum to fee_amount
C16_ExactDistribution ==
    (distribution.called /\ validate_shares(distribution)) =>
        LET d == distribution IN
        /\ d.err = "Ok"
        /\ d.to_lp * 10000 <= d.fee_amount * d.lp_share_bps
        /\ d.fee_amount * d.lp_share_bps < (d.to_lp + 1) * 10000
        /\ d.to_burn * 10000 <= d.fee_amount * d.burn_share_bps
        /\ d.fee_amount * d.burn_share_bps < (d.to_burn + 1) * 10000
        /\ d.to_treasury = d.fee_amount - d.to_lp - d.to_burn
        /\ d.to_lp >= 0 /\ d.to_burn >= 0 /\ d.to_treasury >= 0
        /\ d.to_lp + d.to_burn + d.to_treasury = d.fee_amount

\* a distribution in which rounding loses something on both floored shares,
\* which the treasury's remainder picks up
C16_Witness ==
    /\ distribution.called
    /\ distribution.to_lp * 10000 < distribution.fee_amount * distribution.lp_share_bps
    /\ distribution.to_burn * 10000
          < distribution.fee_amount * distribution.burn_share_bps
    /\ distribution.to_treasury * 10000
          > distribution.fee_amount * distribution.treasury_share_bps

\* C17: the dev's request_unlock of an amount not below the transfer minimum
\* fails with CliffNotPassed before initialized_at + cliff_seconds and with
\* CooldownNotPassed before last_request_time + cooldown_seconds; no request
\* of any amount succeeds then, and the vault is unchanged; a successful
\* request sets pending_amount = amount, last_request_time = now and
\* unlock_time = now + timelock_seconds
C17_RequestGates ==
    \A amount \in RequestAmounts(vault, now) :
        LET r == request_unlock_handler(vault, vault.dev, amount, now)
            in_cliff == now < vault.initialized_at + vault.cliff_seconds
            in_cooldown == now < vault.last_request_time + vault.cooldown_seconds
        IN  /\ (in_cliff \/ in_cooldown) => (r.err # "Ok" /\ CommitVault(r) = vault)
            /\ (amount >= MIN_TRANSFER_AMOUNT /\ in_cliff) => r.err = "CliffNotPassed"
            /\ (amount >= MIN_TRANSFER_AMOUNT /\ ~in_cliff /\ in_cooldown) =>
                  r.err = "CooldownNotPassed"
            /\ r.err = "Ok" =>
                  /\ r.vault.pending_amount = amount
                  /\ r.vault.last_request_time = now
                  /\ r.vault.unlock_time = now + vault.timelock_seconds

\* a request succeeded and the clock stands inside its cooldown
C17_Witness ==
    /\ vault.pending_amount > 0
    /\ vault.last_request_time < now
    /\ now < vault.last_request_time + vault.cooldown_seconds

\* C18: the cap of a request is locked_amount * rate / 10000 with the rate read
\* from the elapsed time alone (500 bps before month 18, 1000 bps from then on),
\* whatever rate the vault has stored; a request above the cap never succeeds
\* and fails with UnlockRateExceeded once minimum, cliff and cooldown are
\* satisfied; a request within the cap then succeeds
C18_RateCap ==
    \A amount \in RequestAmounts(vault, now) \cup {vault.locked_amount} :
    \A stored \in {0, 500, 1000} :
        LET r == request_unlock_handler([vault EXCEPT !.unlock_rate_bps = stored],
                                        vault.dev, amount, now)
            months == (now - vault.initialized_at) \div (30 * 24 * 60 * 60)
            rate == IF months < 18 THEN 500 ELSE 1000
            cap == (vault.locked_amount * rate) \div 10000
            admissible == /\ amount >= MIN_TRANSFER_AMOUNT
                          /\ now >= vault.initialized_at + vault.cliff_seconds
                          /\ now >= vault.last_request_time + vault.cooldown_seconds
        IN  /\ amount > cap => r.err # "Ok"
            /\ (amount > cap /\ admissible) => r.err = "UnlockRateExceeded"
            /\ (amount <= cap /\ admissible) => r.err = "Ok"

\* a request made after month 18 was granted more than 5% of the locked balance
C18_Witness ==
    /\ vault.last_request_time >= vault.initialized_at + 18 * (30 * 24 * 60 * 60)
    /\ vault.pending_amount * 10000 > vault.locked_amount * 500

\* C19: the dev's execute_unlock fails with TimelockNotExpired before
\* unlock_time and with the nothing-pending error (InsufficientFees) when
\* pending_amount = 0, the vault unchanged; otherwise (its transfer going
\* through) it pays out exactly pending_amount, subtracts it from
\* locked_amount, adds it to total_unlocked and zeroes pending_amount, so that
\* a second execute fails
C19_ExecuteUnlock ==
    \A transfer_ok \in BOOLEAN :
        LET r == execute_unlock_handler(vault, vault.dev, transfer_ok, now)
        IN  /\ now < vault.unlock_time =>
                  (r.err = "TimelockNotExpired" /\ CommitVault(r) = vault)
            /\ (now >= vault.unlock_time /\ vault.pending_amount = 0) =>
                  (r.err = "InsufficientFees" /\ CommitVault(r) = vault)
            /\ (now >= vault.unlock_time /\ vault.pending_amount > 0 /\ transfer_ok) =>
                  r.err = "Ok"
            /\ r.err = "Ok" =>
                  /\ r.paid = vault.pending_amount
                  /\ r.vault.locked_amount = vault.locked_amount - vault.pending_amount
                  /\ r.vault.total_unlocked = vault.total_unlocked + vault.pending_amount
                  /\ r.vault.pending_amount = 0
                  /\ r.vault.locked_amount >= 0
                  /\ execute_unlock_handler(r.vault, vault.dev, TRUE, now).err # "Ok"

\* an unlock has been executed and nothing is pending
C19_Witness ==
    /\ vault.total_unlocked > 0
    /\ vault.pending_amount = 0
    /\ vault.locked_amount + vault.total_unlocked = vault.total_locked

\* C20: before initialized_at + cliff_seconds no request_unlock and no
\* execute_unlock succeeds, locked_amount = total_locked and total_unlocked =
\* 0; every request on record was made, and every unlock paid, after the cliff
C20_CliffHolds ==
    LET cliff_end == vault.initialized_at + vault.cliff_seconds IN
    /\ now < cliff_end =>
          /\ vault.locked_amount = vault.total_locked
          /\ vault.total_unlocked = 0
          /\ vault.pending_amount = 0
          /\ \A signer \in Pubkeys : \A amount \in 1 .. vault.total_locked :
                request_unlock_handler(vault, signer, amount, now).err # "Ok"
          /\ \A signer \in Pubkeys : \A transfer_ok \in BOOLEAN :
                execute_unlock_handler(vault, signer, transfer_ok, now).err # "Ok"
    /\ vault.pending_amount > 0 => vault.last_request_time >= cliff_end
    /\ vault.total_unlocked > 0 => now >= cliff_end + vault.timelock_seconds

\* the first request was made at the very end of the cliff
C20_Witness ==
    /\ vault.last_request_time = vault.initialized_at + vault.cliff_seconds
    /\ vault.pending_amount > 0
    /\ now = vault.last_request_time

-----------------------------------------------------------------------------
(* Properties of the DAO treasury.  The attempts are made by the governance *)
(* key and, for execute, with the treasury's own token account.             *)

\* the instants at or after now at which the clock is observed
TreasuryTimesFrom(t) ==
    {t} \cup {VestGenesis + a : a \in {b \in TreasuryAges : VestGenesis + b > t}}

\* C21: a proposal is judged against the period as reset when
\* now >= period_start + period_seconds (period_start = now, nothing spent):
\* it fails with AmountBelowMinimum when amount < 34, fails with
\* DaoSpendingLimitExceeded when a larger amount exceeds
\* floor(balance * max_spend_bps_per_period / 10000) - spent_this_period, and
\* otherwise records the pending request with execute_after = now +
\* timelock_seconds; a failed proposal leaves the treasury unchanged
C21_ProposeValidation ==
    \A amount \in ProposeAmounts(treasury, now) \cup {50},
       recipient \in Pubkeys, reason \in Reasons :
        LET r == propose_handler(treasury, treasury.governance, amount,
                                 recipient, reason, now)
            reset == now >= treasury.period_start + treasury.period_seconds
            spent == IF reset THEN 0 ELSE treasury.spent_this_period
            limit == (treasury.balance * treasury.max_spend_bps_per_period)
                         \div 10000 - spent
        IN  /\ amount < 34 => r.err = "AmountBelowMinimum"
            /\ amount >= 34 /\ amount > limit =>
                   r.err = "DaoSpendingLimitExceeded"
            /\ amount >= 34 /\ amount <= limit =>
                   /\ r.err = "Ok"
                   /\ r.treasury.pending_amount = amount
                   /\ r.treasury.pending_recipient = recipient
                   /\ r.treasury.pending_execute_after =
                          now + treasury.timelock_seconds
                   /\ r.treasury.period_start =
                          IF reset THEN now ELSE treasury.period_start
                   /\ r.treasury.spent_this_period = spent
                   /\ r.treasury.balance = treasury.balance
            /\ r.err # "Ok" => r.treasury = treasury

\* something was spent, the period has been reset by a later proposal, and in
\* the new period a proposal at the new cap passes while one above it fails
C21_Witness ==
    /\ treasury.total_withdrawn > 0
    /\ treasury.period_start > VestGenesis
    /\ treasury.spent_this_period = 0
    /\ treasury.pending_amount = max_spendable(treasury)
    /\ propose_handler(treasury, treasury.governance, treasury.pending_amount + 1,
                       "keyA", <<1>>, now).err = "DaoSpendingLimitExceeded"

\* C22: execute fails and leaves the treasury unchanged when nothing is
\* pending or now < pending_execute_after; a successful execute pays the
\* pending amount to the pending recipient, adds it to spent_this_period and
\* total_withdrawn, subtracts it from balance and clears the pending fields,
\* so that no later execute pays the same proposal again
C22_ExecuteOnce ==
    \A owner \in Pubkeys \cup {DefaultPubkey}, transfer_ok \in BOOLEAN :
        LET r == execute_handler(treasury, treasury.token_account, owner,
                                 transfer_ok, now)
        IN  /\ (treasury.pending_amount = 0 \/ now < treasury.pending_execute_after)
                   => r.err # "Ok" /\ r.treasury = treasury
            /\ r.err = "Ok" =>
                   /\ r.paid = treasury.pending_amount
                   /\ r.paid_to = treasury.pending_recipient
                   /\ r.treasury.spent_this_period =
                          treasury.spent_this_period + treasury.pending_amount
                   /\ r.treasury.total_withdrawn =
                          treasury.total_withdrawn + treasury.pending_amount
                   /\ r.treasury.balance =
                          treasury.balance - treasury.pending_amount
                   /\ r.treasury.pending_amount = 0
                   /\ r.treasury.pending_recipient = DefaultPubkey
                   /\ r.treasury.pending_reason = [i \in 1..128 |-> 0]
                   /\ r.treasury.pending_execute_after = 0
                   /\ \A t \in TreasuryTimesFrom(now),
                         owner2 \in Pubkeys \cup {DefaultPubkey} :
                          execute_handler(r.treasury, treasury.token_account,
                                          owner2, TRUE, t).err # "Ok"
            /\ r.err # "Ok" => r.treasury = treasury

\* a proposal has been executed, and nothing is pending since
C22_Witness ==
    /\ Len(outflows) > 0
    /\ treasury.pending_amount = 0
    /\ treasury.total_withdrawn = outflows[1].amount
    /\ treasury.balance = TreasuryBalance - outflows[1].amount

RECURSIVE OutflowWithin(_, _, _)
\* the sum of the amounts of outflows[i..] executed before instant until
OutflowWithin(flows, i, until) ==
    IF i > Len(flows) THEN 0
    ELSE (IF flows[i].at < until THEN flows[i].amount ELSE 0)
             + OutflowWithin(flows, i + 1, until)

\* C23: in any window of period_seconds the successful executes take out at
\* most max_spend_bps_per_period / 10000 of the balance held when the window
\* starts (the windows that start at an execute are the tightest)
C23_RollingCap ==
    \A i \in 1..Len(outflows) :
        OutflowWithin(outflows, i, outflows[i].at + treasury.period_seconds)
            <= (outflows[i].balance_before * treasury.max_spend_bps_per_period)
                   \div 10000

\* C24: a valid proposal made while one is pending replaces it: the pending
\* amount, recipient and execute_after (the time of the second proposal +
\* timelock_seconds) are the second's, and every later execute pays the
\* second's amount to the second's recipient, never before the restarted
\* timelock is over
C24_SecondProposalReplaces ==
    treasury.pending_amount > 0 =>
        \A amount \in ProposeAmounts(treasury, now) \cup {50},
           recipient \in Pubkeys, reason \in Reasons :
            LET r == propose_handler(treasury, treasury.governance, amount,
                                     recipient, reason, now)
            IN  r.err = "Ok" =>
                    /\ r.treasury.pending_amount = amount
                    /\ r.treasury.pending_recipient = recipient
                    /\ r.treasury.pending_execute_after =
                           now + treasury.timelock_seconds
                    /\ \A t \in TreasuryTimesFrom(now), owner \in Pubkeys :
                           LET x == execute_handler(r.treasury,
                                                    treasury.token_account,
                                                    owner, TRUE, t)
                           IN  /\ t < now + treasury.timelock_seconds
                                      => x.err # "Ok"
                               /\ x.err = "Ok" =>
                                      x.paid = amount /\ x.paid_to = recipient

\* the reason buffer holds a second proposal's one-byte reason over a first
\* proposal's two bytes: a pending proposal has been replaced, nothing having
\* been executed in between, and the first one's timelock is already over
C24_Witness ==
    /\ treasury.pending_amount > 0
    /\ treasury.pending_reason[1] = 1
    /\ treasury.pending_reason[2] = 2
    /\ treasury.pending_execute_after > now
    /\ now >= treasury.period_start + treasury.timelock_seconds

-----------------------------------------------------------------------------
(* Properties of the token config and of Armageddon mode.  The attempts are *)
(* made by the admin key.                                                   *)

\* the instants at or after now at which the clock is observed
ConfigTimesFrom(t) ==
    {t} \cup {VestGenesis + a : a \in {b \in ConfigAges : VestGenesis + b > t}}

\* C25: a fee change announced at t records activate_time = t + 24h and
\* cancel_time = t + 48h; execute_fee_change succeeds only when a change is
\* pending and activate_time <= now < cancel_time; cancel_fee_change succeeds
\* only when a change is pending and now < activate_time or now >= cancel_time;
\* so an announced rate is never put into effect earlier than 24h or later
\* than 48h (exclusive) after its announcement
C25_FeeChangeWindow ==
    /\ \A new_fee_bps \in FeeRates :
           LET a == announce_fee_change_handler(token_config, token_config.admin,
                                                new_fee_bps, now)
           IN  a.err = "Ok" =>
                   /\ a.config.pending_fee_bps = new_fee_bps
                   /\ a.config.pending_fee_activate_time = now + 24 * 60 * 60
                   /\ a.config.pending_fee_cancel_time = now + 48 * 60 * 60
                   /\ \A t \in ConfigTimesFrom(now) :
                          LET x == execute_fee_change_handler(
                                       a.config, token_config.admin, t)
                          IN  x.err = "Ok" =>
                                  /\ t >= now + 24 * 60 * 60
                                  /\ t < now + 48 * 60 * 60
                                  /\ x.config.transfer_fee_bps = new_fee_bps
    /\ LET x == execute_fee_change_handler(token_config, token_config.admin, now)
           pending == token_config.pending_fee_bps > 0
       IN  /\ x.err = "Ok" =>
                  /\ pending
                  /\ token_config.pending_fee_activate_time <= now
                  /\ now < token_config.pending_fee_cancel_time
           /\ x.err # "Ok" => x.config = token_config
    /\ LET c == cancel_fee_change_handler(token_config, token_config.admin, now)
           pending == token_config.pending_fee_bps > 0
       IN  /\ c.err = "Ok" =>
                  /\ pending
                  /\ \/ now < token_config.pending_fee_activate_time
                     \/ now >= token_config.pending_fee_cancel_time
                  /\ c.config.transfer_fee_bps = token_config.transfer_fee_bps
           /\ c.err # "Ok" => c.config = token_config

\* a change announced at genesis is pending, its execution window has just
\* closed: execute is refused, cancel accepted
C25_Witness ==
    /\ token_config.pending_fee_bps = 200
    /\ token_config.pending_fee_activate_time = VestGenesis + 24 * 60 * 60
    /\ now = token_config.pending_fee_cancel_time
    /\ execute_fee_change_handler(token_config, token_config.admin, now).err
           = "FeeChangeTimelockNotExpired"
    /\ cancel_fee_change_handler(token_config, token_config.admin, now).err = "Ok"

\* C26: the transfer fee of an initialized token config is always within
\* [100, 300] bps, whatever sequence of init, announce / execute / cancel fee
\* change and Armageddon trigger / recover has run
C26_FeeInRange ==
    /\ token_config.transfer_fee_bps >= 100
    /\ token_config.transfer_fee_bps <= 300
    /\ \A fee \in FeeRates :
           LET r == init_token_config_handler("keyA", fee, 7000, 1500, 1500, now)
           IN  /\ r.err = "Ok" => r.config.transfer_fee_bps \in 100..300
               /\ fee \notin 100..300 => r.err = "InvalidTransferFee"

\* a fee change was executed, an Armageddon was triggered later and recovered
\* from: the fee is the 300 bps the trigger set
C26_Witness ==
    /\ token_config.last_fee_update > VestGenesis
    /\ armageddon_state.triggered_at > token_config.last_fee_update
    /\ armageddon_state.level = 0
    /\ token_config.transfer_fee_bps = 300

\* C27: the Armageddon level is one of 0..3 and equals the level mirrored in
\* the token config; trigger(level) fails with InvalidArmageddonLevel unless
\* level is 1, 2 or 3 and otherwise, from any level, sets the level and the
\* trigger timestamp; recover fails with NotInArmageddon at level 0 and
\* otherwise resets the level to 0 and clears trading_paused, whatever the LP
\* value is
C27_LevelMirrored ==
    /\ armageddon_state.level \in {0, 1, 2, 3}
    /\ armageddon_state.level = token_config.armageddon_level
    /\ \A level \in LevelInputs :
           LET r == trigger_handler(token_config, armageddon_state,
                                    token_config.admin, level, now)
           IN  IF level \in {1, 2, 3}
               THEN /\ r.err = "Ok"
                    /\ r.state.level = level
                    /\ r.state.triggered_at = now
                    /\ r.config.armageddon_level = level
               ELSE /\ r.err = "InvalidArmageddonLevel"
                    /\ r.state = armageddon_state
                    /\ r.config = token_config
    /\ LET r == recover_handler(token_config, armageddon_state, token_config.admin)
       IN  IF armageddon_state.level = 0
           THEN /\ r.err = "NotInArmageddon"
                /\ r.state = armageddon_state
                /\ r.config = token_config
           ELSE /\ r.err = "Ok"
                /\ r.state.level = 0
                /\ r.state.trading_paused = FALSE
                /\ r.config.armageddon_level = 0

\* level 2 was triggered after an earlier trigger of level 3
C27_Witness ==
    /\ armageddon_state.level = 2
    /\ token_config.armageddon_level = 2
    /\ armageddon_state.trading_paused
    /\ armageddon_state.triggered_at = now

\* C28: trading is paused only at level 3: at level 0, 1 or 2 trading_paused
\* is false, after any sequence of trigger and recover
C28_PausedOnlyAtLevel3 ==
    armageddon_state.level \in {0, 1, 2} => armageddon_state.trading_paused = FALSE

\* C29: while the Armageddon level is 1..3 the transfer fee is the emergency
\* rate of 300 bps, whatever fee-change instructions are interleaved
C29_EmergencyFeeInForce ==
    armageddon_state.level > 0 => token_config.transfer_fee_bps = 300

\* C30: the fee split follows the triggered level: at level 1..3 the LP share
\* of a fee amount is taken with emergency_lp_share_bps (9000), at level 0 with
\* the configured lp_share_bps
C30_EmergencyLpShare ==
    \A fee_amount \in FeeAmounts :
        calculate_distribution(token_config, fee_amount).to_lp =
            IF armageddon_state.level > 0
            THEN (fee_amount * 9000) \div 10000
            ELSE (fee_amount * token_config.lp_share_bps) \div 10000

-----------------------------------------------------------------------------
(* Atomicity, authorization and progress of the custody lock; accounting of *)
(* the vesting vault and of the treasury; frame of recover_from_armageddon. *)

C32_OneOfTwoExecutes ==
    \A slot \in SlotIdx :
        can_execute_withdrawal(lp_lock, slot, now) =>
            \A dest1 \in Pubkeys, dest2 \in Pubkeys :
                LET pw == lp_lock.pending_withdrawals[slot]
                    first == execute_withdrawal_handler(lp_lock, slot, dest1, TRUE, now)
                    second(t) == execute_withdrawal_handler(first.lock, slot,
                                                            dest2, TRUE, t)
                IN  /\ first.err = "Ok"
                    /\ first.amount = pw.amount
                    /\ first.lock.total_withdrawn =
                           lp_lock.total_withdrawn + pw.amount
                    /\ \A a \in ClockAges :
                           LET t == IF lp_lock.created_at + a > now
                                    THEN lp_lock.created_at + a ELSE now
                           IN  /\ second(t).err # "Ok"
                               /\ second(t).lock = first.lock

\* a request for the whole balance has matured and two executes of it are made
C32_Witness ==
    \E slot \in SlotIdx :
        /\ can_execute_withdrawal(lp_lock, slot, now)
        /\ lp_lock.pending_withdrawals[slot].amount = MaxAmount
        /\ lp_lock.lp_tokens_locked = MaxAmount
        /\ execute_withdrawal_handler(
               execute_withdrawal_handler(lp_lock, slot, "keyA", TRUE, now).lock,
               slot, "keyB", TRUE, now).err = "TimelockNotExpired"

\* C33: the rate cap max_unlockable returns is floor(locked_amount *
\* unlock_rate_bps / 10000) for every 64-bit locked_amount: no overflow,
\* wrap-around or saturation of the product changes it
C33_ExactRateCap ==
    cap_call.called =>
        cap_call.cap = div_10000(limbs_mul(cap_call.locked_amount,
                                           cap_call.unlock_rate_bps, 1, 0))

\* the error each admin instruction returns for signer on lock lk
AdminAttempts(lk, signer) ==
    [ announce |-> announce_withdrawal_handler(lk, signer, 1, "keyA", "reason", now).err,
      cancel |-> [slot \in SlotIdx |-> cancel_withdrawal_handler(lk, signer, slot).err],
      snapshot |-> take_snapshot_handler(lk, signer, "MANUAL", 1, 1, 1, 1, now).err,
      restore |-> [id \in SnapshotIdInputs(lk) |->
                      restore_from_snapshot_handler(lk, signer, id, MaxAmount,
                                                    TRUE, now).err],
      transfer |-> transfer_admin_handler(lk, signer, "keyA").err ]

\* C34: announce, cancel, take_snapshot, restore and transfer_admin succeed only
\* for the admin recorded in the lock and are rejected as Unauthorized, the lock
\* unchanged, for anyone else; once transfer_lp_lock_admin has handed the role
\* to B the previous admin is rejected in the same way and B's calls succeed
\* where the previous admin's did
C34_AdminOnly ==
    /\ \A signer \in Pubkeys \ {lp_lock.admin} :
           /\ LET r == announce_withdrawal_handler(lp_lock, signer, 1, "keyA",
                                                   "reason", now)
              IN  r.err = "Unauthorized" /\ r.lock = lp_lock
           /\ \A slot \in SlotInputs :
                  LET r == cancel_withdrawal_handler(lp_lock, signer, slot)
                  IN  r.err = "Unauthorized" /\ r.lock = lp_lock
           /\ LET r == take_snapshot_handler(lp_lock, signer, "MANUAL", 1, 1, 1, 1, now)
              IN  r.err = "Unauthorized" /\ r.lock = lp_lock
           /\ \A id \in SnapshotIdInputs(lp_lock) :
                  LET r == restore_from_snapshot_handler(lp_lock, signer, id,
                                                         MaxAmount, TRUE, now)
                  IN  r.err = "Unauthorized" /\ r.lock = lp_lock
           /\ \A new_admin \in Pubkeys :
                  LET r == transfer_admin_handler(lp_lock, signer, new_admin)
                  IN  r.err = "Unauthorized" /\ r.lock = lp_lock
    /\ \A B \in Pubkeys :
           LET r == transfer_admin_handler(lp_lock, lp_lock.admin, B)
               before == AdminAttempts(lp_lock, lp_lock.admin)
           IN  /\ r.err = "Ok"
               /\ r.lock = [lp_lock EXCEPT !.admin = B]
               /\ AdminAttempts(r.lock, B) = before
               /\ B # lp_lock.admin =>
                      LET old == AdminAttempts(r.lock, lp_lock.admin)
                      IN  /\ old.announce = "Unauthorized"
                          /\ \A slot \in SlotIdx : old.cancel[slot] = "Unauthorized"
                          /\ old.snapshot = "Unauthorized"
                          /\ \A id \in SnapshotIdInputs(lp_lock) :
                                 old.restore[id] = "Unauthorized"
                          /\ old.transfer = "Unauthorized"

\* the role has been handed from keyA to keyB, and keyB has cancelled a request
C34_Witness ==
    /\ lp_lock.admin = "keyB"
    /\ lp_lock.pending_count < Cardinality(ActiveSlots(FullLock))
    /\ lp_lock.total_withdrawn = 0
    /\ cancel_withdrawal_handler(lp_lock, "keyA", 0).err = "Unauthorized"

\* C35: the lock cannot get stuck.  An announced request is executable at its
\* execute_after and at every later instant the clock reaches (so it becomes
\* executable as the clock advances, unless it is cancelled first), and when
\* all three slots are active the admin's cancel of any of them succeeds and
\* an announce that follows it succeeds
C35_NeverStuck ==
    /\ \A slot \in ActiveSlots(lp_lock) :
           LET pw == lp_lock.pending_withdrawals[slot]
               due == IF pw.execute_after > now THEN pw.execute_after ELSE now
           IN  \A a \in CapAges \cup {0} :
                   LET t == IF lp_lock.created_at + a > due
                            THEN lp_lock.created_at + a ELSE due
                       r == execute_withdrawal_handler(lp_lock, slot, pw.recipient,
                                                       TRUE, t)
                   IN  /\ can_execute_withdrawal(lp_lock, slot, t)
                       /\ r.err = "Ok"
                       /\ r.amount = pw.amount
    /\ free_slots(lp_lock) = {} =>
           \A slot \in SlotIdx :
               LET c == cancel_withdrawal_handler(lp_lock, lp_lock.admin, slot)
                   a == announce_withdrawal_handler(c.lock, lp_lock.admin,
                                                    lp_lock.lp_tokens_locked,
                                                    "keyA", "reason", now)
               IN  /\ c.err = "Ok"
                   /\ a.err = "Ok"
                   /\ a.slot = slot
                   /\ a.lock.pending_withdrawals[slot].is_active

\* with every slot taken, one request was cancelled and another announced in
\* its place: every slot is taken again, the new request still in its timelock
C35_Witness ==
    /\ free_slots(lp_lock) = {}
    /\ lp_lock.total_withdrawn = 0
    /\ lp_lock.snapshot_counter = FullLock.snapshot_counter + 1
    /\ \E slot \in SlotIdx : lp_lock.pending_withdrawals[slot].execute_after > now
    /\ \E slot \in SlotIdx : can_execute_withdrawal(lp_lock, slot, now)

\* the amounts of the active requests of a lock, added up
RECURSIVE PendingTotal(_, _)
PendingTotal(lk, slots) ==
    IF slots = {} THEN 0
    ELSE LET s == CHOOSE x \in slots : TRUE
         IN  lk.pending_withdrawals[s].amount + PendingTotal(lk, slots \ {s})

\* C36: the amounts of the active pending requests add up to at most
\* lp_tokens_locked, so that every pending request can be executed in full
C36_PendingWithinBalance ==
    PendingTotal(lp_lock, ActiveSlots(lp_lock)) <= lp_lock.lp_tokens_locked

\* C37: in the vesting vault locked_amount + total_unlocked = total_locked and
\* pending_amount <= locked_amount, so execute_unlock never fails on the
\* subtraction of the balance and never pays more than is locked
C37_VaultAccounting ==
    /\ vault.locked_amount + vault.total_unlocked = vault.total_locked
    /\ vault.pending_amount <= vault.locked_amount
    /\ \A signer \in Pubkeys : \A transfer_ok \in BOOLEAN :
           LET r == execute_unlock_handler(vault, signer, transfer_ok, now)
           IN  /\ r.err # "MathOverflow"
               /\ r.paid <= vault.locked_amount
               /\ r.err = "Ok" =>
                      /\ r.vault.locked_amount + r.vault.total_unlocked
                            = r.vault.total_locked
                      /\ r.vault.pending_amount <= r.vault.locked_amount

\* part of the allocation was liquid at TGE, one unlock has been paid and the
\* next one is pending
C37_Witness ==
    /\ vault.liquid_at_tge > 0
    /\ vault.total_unlocked > 0
    /\ vault.pending_amount > 0
    /\ vault.locked_amount < vault.total_locked

\* the positions of unlock_calls holding a call of the given kind
CallsOf(call) == { i \in 1 .. Len(unlock_calls) : unlock_calls[i].call = call }

\* C38 as stated: any two successful requests are at least cooldown_seconds
\* apart, any two successful executes are more than timelock_seconds apart,
\* and each execute pays at most 10% of the balance locked at its request
C38_UnlockSpacing ==
    /\ \A i, j \in CallsOf("request") :
           i < j => unlock_calls[j].at - unlock_calls[i].at >= vault.cooldown_seconds
    /\ \A i, j \in CallsOf("execute") :
           i < j => unlock_calls[j].at - unlock_calls[i].at > vault.timelock_seconds
    /\ \A i \in CallsOf("execute") :
           unlock_calls[i].amount * 10000 <= unlock_calls[i].locked * 1000

\* C38, amended: any two successful requests are at least cooldown_seconds
\* apart, any two successful executes are at least timelock_seconds apart
\* (exactly that when the next request is made at the instant of the first
\* execute and executed as soon as its timelock expires), and each execute
\* pays at most 10% of the balance locked at its request
C38_UnlockSpacingAtLeast ==
    /\ \A i, j \in CallsOf("request") :
           i < j => unlock_calls[j].at - unlock_calls[i].at >= vault.cooldown_seconds
    /\ \A i, j \in CallsOf("execute") :
           i < j => unlock_calls[j].at - unlock_calls[i].at >= vault.timelock_seconds
    /\ \A i \in CallsOf("execute") :
           /\ unlock_calls[i].amount * 10000 <= unlock_calls[i].locked * 1000
           /\ \E j \in CallsOf("request") :
                  /\ j < i
                  /\ unlock_calls[j].amount = unlock_calls[i].amount
                  /\ unlock_calls[j].locked = unlock_calls[i].locked

\* two unlocks have been requested and paid, the second after month 18 at
\* the full 10% of the balance then locked
C38_Witness ==
    /\ Cardinality(CallsOf("request")) >= 2
    /\ Cardinality(CallsOf("execute")) >= 2
    /\ \E i \in CallsOf("execute") :
           /\ unlock_calls[i].amount > 0
           /\ unlock_calls[i].amount = (unlock_calls[i].locked * 1000) \div 10000

RECURSIVE OutflowFrom(_)
\* the amounts of outflows[i..], added up
OutflowFrom(i) ==
    IF i > Len(outflows) THEN 0
    ELSE outflows[i].amount + OutflowFrom(i + 1)

\* C39: spent_this_period is the sum of the amounts executed since the last
\* period reset (or since initialization) and is at most
\* floor(B * max_spend_bps_per_period / 10000), B the balance at that reset;
\* a proposal replaced or executed after its period has elapsed included
C39_PeriodCap ==
    LET cap == (period_reset.balance * treasury.max_spend_bps_per_period)
                   \div 10000
    IN  /\ treasury.spent_this_period <= cap
        /\ OutflowFrom(period_reset.outflows + 1) = treasury.spent_this_period
        /\ OutflowFrom(period_reset.outflows + 1) <= cap

\* a proposal of the first period was executed after the period had elapsed,
\* then a proposal reset the period and was executed in its turn
C39_Witness ==
    /\ Len(outflows) >= 2
    /\ period_reset.outflows >= 1
    /\ period_reset.outflows < Len(outflows)
    /\ outflows[period_reset.outflows].at
           >= VestGenesis + treasury.period_seconds
    /\ treasury.spent_this_period > 0

\* C40: recover_from_armageddon changes only the level (in the state and in
\* the config's mirror) and trading_paused; transfer_fee_bps, the pending fee
\* change and emergency_lp_share_bps stay as they are, so once triggered the
\* fee rate is the emergency 300, recovered or not, until a fee change is
\* executed after the trigger
C40_RecoverFrame ==
    /\ \A signer \in Pubkeys :
           LET r == recover_handler(token_config, armageddon_state, signer)
               cfg == CommitConfig(r)
               st == CommitArmageddon(r)
           IN  r.err = "Ok" =>
                   /\ cfg = [token_config EXCEPT !.armageddon_level = 0]
                   /\ st = [armageddon_state EXCEPT !.level = 0,
                                                    !.trading_paused = FALSE]
                   /\ cfg.transfer_fee_bps = token_config.transfer_fee_bps
                   /\ cfg.pending_fee_bps = token_config.pending_fee_bps
                   /\ cfg.pending_fee_activate_time
                          = token_config.pending_fee_activate_time
                   /\ cfg.pending_fee_cancel_time
                          = token_config.pending_fee_cancel_time
                   /\ st.emergency_lp_share_bps
                          = armageddon_state.emergency_lp_share_bps
    /\ armageddon_state.triggered_at > token_config.last_fee_update =>
           token_config.transfer_fee_bps = 300

\* triggered and recovered with a fee change to another rate still pending:
\* the level is 0 again, trading is not paused and the fee rate is still 300
C40_Witness ==
    /\ armageddon_state.triggered_at > token_config.last_fee_update
    /\ armageddon_state.level = 0
    /\ token_config.armageddon_level = 0
    /\ ~armageddon_state.trading_paused
    /\ armageddon_state.emergency_lp_share_bps = 9000
    /\ token_config.pending_fee_bps \notin {0, 300}
    /\ token_config.transfer_fee_bps = 300

====
